---- MODULE Spec2Model ----
(***************************************************************************)
(* A model of the BiasBusterr Python backend (src/python_backend/main.py): *)
(* column-role detection, the fairness metrics, the SHAP aggregation of    *)
(* /process_csv and /explain, the top-5 ranking, and the request handlers  *)
(* with their exception handling.                                          *)
(***************************************************************************)
EXTENDS Integers, Sequences, FiniteSets, TLC

VARIABLES
    \* ---- detect_columns, applied to a schema and a hint pair
    schema,      \* df.columns with the dtype kind of each column
    hintT,       \* target_column form field ("" is None / empty: falsy)
    hintP,       \* protected_attribute form field
    roles,       \* what detect_columns returned or raised; Pending before
    \* ---- calculate_fairness_metrics, applied to an evaluation split
    evalSplit,   \* [y_true, y_pred, protected_attr]: three arrays of one length
    metrics,     \* the dict it returned, or the exception it raised
    fairness_score, \* the caller's score, in hundredths (2 decimals)
    \* ---- the SHAP aggregation of /process_csv and of /explain
    shap_values_raw, \* what explainer.shap_values returned
    n_features,      \* len(feature_names)
    auditShap,       \* mean_abs_shap of process_csv, or the exception
    explainShap,     \* mean_abs_shap of explain, or the exception
    \* ---- the top-5 ranking of /process_csv and of /explain
    mean_abs_shap,   \* the aggregated vector, in ten-thousandths
    auditTop,        \* feature_importance of process_csv
    explainTop,      \* feature_importance of explain
    \* ---- the request handlers
    pc,              \* where the handler of the current request stands
    request,         \* [op, file, target_column, protected_attribute, row_index]
    df,              \* the DataFrame of the request
    locals,          \* the handler's other local variables
    trained,         \* classifiers fitted for the current request
    exc,             \* the exception in flight inside the handler's try
    response,        \* the HTTP response sent for the current request
    served,          \* the earlier invocations of a request that is repeated:
                     \* what each ended with
    \* ---- the flip rule of /counterfactual_check, applied repeatedly
    flip_values,     \* sorted(df[protected_attr].unique())
    flip_model,      \* the fitted model on the row: protected value -> proba
    flip_row,        \* the row's protected value, prediction and probability,
                     \* as first read and after each flip
    \* ---- /check_rbi_compliance
    rbi_form,        \* the three form fields
    rbi_results,     \* the dict returned
    \* ---- the feature matrix each handler builds from a schema and its roles
    feature_prep,    \* [op, cols_to_drop, feature_names, ...] of one request
    \* ---- the rows handed to the SHAP explainer
    shap_call        \* [op, X_test, X_shap]: the sizes of the test split and
                     \* of the frame explainer.shap_values receives

detectVars == <<schema, hintT, hintP, roles>>
fairVars == <<evalSplit, metrics, fairness_score>>

shapVars == <<shap_values_raw, n_features, auditShap, explainShap>>

rankVars == <<mean_abs_shap, auditTop, explainTop>>

handlerVars == <<pc, request, df, locals, trained, exc, response, served>>

flipVars == <<flip_values, flip_model, flip_row>>

rbiVars == <<rbi_form, rbi_results>>

prepVars == <<feature_prep, shap_call>>

vars == <<schema, hintT, hintP, roles, evalSplit, metrics, fairness_score,
          shap_values_raw, n_features, auditShap, explainShap,
          mean_abs_shap, auditTop, explainTop,
          pc, request, df, locals, trained, exc, response, served,
          flip_values, flip_model, flip_row, rbi_form, rbi_results,
          feature_prep, shap_call>>

(***************************************************************************)
(* Generic helpers.                                                        *)
(***************************************************************************)
Min(S) == CHOOSE x \in S : \A y \in S : x <= y
Max(S) == CHOOSE x \in S : \A y \in S : x >= y
Range(s) == {s[i] : i \in 1..Len(s)}

(***************************************************************************)
(* Python string operations used on column names.                          *)
(***************************************************************************)
UpperAlpha == "ABCDEFGHIJKLMNOPQRSTUVWXYZ"
LowerAlpha == "abcdefghijklmnopqrstuvwxyz"

\* str.lower() on one character
LowerChar(c) ==
    IF \E i \in 1..Len(UpperAlpha) : SubSeq(UpperAlpha, i, i) = c
    THEN LET i == CHOOSE j \in 1..Len(UpperAlpha) : SubSeq(UpperAlpha, j, j) = c
         IN  SubSeq(LowerAlpha, i, i)
    ELSE c

\* str.lower()
RECURSIVE Lower(_)
Lower(s) ==
    IF Len(s) = 0 THEN ""
    ELSE LowerChar(SubSeq(s, 1, 1)) \o Lower(SubSeq(s, 2, Len(s)))

\* `sub in s` on strings
Contains(s, sub) ==
    \E i \in 1..(Len(s) - Len(sub) + 1) : SubSeq(s, i, i + Len(sub) - 1) = sub

\* any(keyword in s for keyword in keywords)
AnyKeywordIn(keywords, s) ==
    \E k \in 1..Len(keywords) : Contains(s, keywords[k])

(***************************************************************************)
(* detect_columns (main.py 46-103).  A schema is the sequence df.columns,  *)
(* each column a record [name, kind] with kind "object" or "number".       *)
(***************************************************************************)
ColumnNames(columns) == [i \in 1..Len(columns) |-> columns[i].name]
InColumns(name, columns) == \E i \in 1..Len(columns) : columns[i].name = name

priority_targets ==
    <<"Loan_Approved", "Loan_Status", "Approved", "Status", "Target", "Class", "Outcome">>
target_keywords ==
    <<"outcome", "class", "target", "label", "y", "decision", "approved", "churn", "status">>
protected_keywords ==
    <<"gender", "sex", "race", "ethnicity", "disability", "caste", "religion", "age">>

\* the name of the first column, in df.columns order, among those (given by
\* index) that pass a loop's test; "" (None) if there is none
FirstColumn(columns, hits) ==
    IF hits = {} THEN "" ELSE columns[Min(hits)].name

\* lines 48-54: a provided name that is not a column is reset to None
ValidateHintKeep(columns, hint) == hint
ValidateHint(columns, hint) ==
    IF hint # "" /\ ~InColumns(hint, columns) THEN "" ELSE hint

\* lines 61-66: first column whose name is in priority_targets
PriorityTarget(columns) ==
    FirstColumn(columns, {i \in 1..Len(columns) :
                            columns[i].name \in Range(priority_targets)})

\* lines 70-77: first column with a target keyword and without 'months'
KeywordTarget(columns) ==
    FirstColumn(columns, {i \in 1..Len(columns) :
                            /\ AnyKeywordIn(target_keywords, Lower(columns[i].name))
                            /\ ~Contains(Lower(columns[i].name), "months")})

\* lines 59-77
DetectTarget(columns, target) ==
    IF target # "" THEN target
    ELSE IF PriorityTarget(columns) # "" THEN PriorityTarget(columns)
    ELSE KeywordTarget(columns)

\* lines 83-87
KeywordProtected(columns) ==
    FirstColumn(columns, {i \in 1..Len(columns) :
                            AnyKeywordIn(protected_keywords, Lower(columns[i].name))})

\* lines 90-96: first object/category column that is not the target
FallbackProtected(columns, target) ==
    FirstColumn(columns, {i \in 1..Len(columns) :
                            /\ columns[i].kind = "object"
                            /\ columns[i].name # target
                            /\ columns[i].name # "Applicant_Name"})

\* lines 80-96
DetectProtected(columns, target, protected) ==
    IF protected # "" THEN protected
    ELSE IF KeywordProtected(columns) # "" THEN KeywordProtected(columns)
    ELSE FallbackProtected(columns, target)

\* The whole function: the roles it returns, or the HTTPException it raises.
detect_columns(columns, target_in, protected_in) ==
    LET target    == DetectTarget(columns, ValidateHint(columns, target_in))
        protected == DetectProtected(columns, target, ValidateHint(columns, protected_in))
    IN  IF target = "" \/ ~InColumns(target, columns)
        THEN [raised |-> TRUE, status_code |-> 400, detail |-> "target",
              target |-> "", protected |-> ""]
        ELSE IF protected = "" \/ ~InColumns(protected, columns)
        THEN [raised |-> TRUE, status_code |-> 400, detail |-> "protected",
              target |-> "", protected |-> ""]
        ELSE [raised |-> FALSE, status_code |-> 200, detail |-> "",
              target |-> target, protected |-> protected]

\* no call made yet
Pending ==
    [raised |-> FALSE, status_code |-> 0, detail |-> "pending", target |-> "", protected |-> ""]

(***************************************************************************)
(* Numbers.  A Python float that the code rounds to d decimals is held as   *)
(* the integer number of 10^-d units; a quotient is held exactly as         *)
(* <<numerator, denominator>> until it is rounded.                          *)
(***************************************************************************)
Abs(n) == IF n < 0 THEN -n ELSE n

\* round(num/den * scale) to the nearest integer, ties to even (Python round)
RoundDiv(num, den, scale) ==
    LET n == Abs(num) * scale
        q == n \div den
        r == n % den
        m == IF 2 * r < den THEN q
             ELSE IF 2 * r > den THEN q + 1
             ELSE IF q % 2 = 0 THEN q ELSE q + 1
    IN  IF num < 0 THEN -m ELSE m

Digits == "0123456789"

\* str() of a non-negative integer
RECURSIVE ToStr(_)
ToStr(n) ==
    IF n < 10 THEN SubSeq(Digits, n + 1, n + 1)
    ELSE ToStr(n \div 10) \o SubSeq(Digits, (n % 10) + 1, (n % 10) + 1)

\* np.unique: the sorted distinct values of an array
RECURSIVE SortedSeq(_)
SortedSeq(S) == IF S = {} THEN <<>> ELSE <<Min(S)>> \o SortedSeq(S \ {Min(S)})
NpUnique(a) == SortedSeq(Range(a))

(***************************************************************************)
(* calculate_fairness_metrics (main.py 105-152)                            *)
(***************************************************************************)
\* line 113: unique_labels[-1]
FavorableLabel(unique_labels) == unique_labels[Len(unique_labels)]

\* lines 121-125: both branches take the first two sorted groups
GroupA(unique_groups) == unique_groups[1]
GroupBLast(unique_groups) == unique_groups[Len(unique_groups)]
GroupB(unique_groups) == unique_groups[2]

\* lines 131-134: np.mean(y_pred[mask] == favorable_label), 0.0 on an empty mask
selection_rate_sum(y_pred, protected_attr, favorable_label, group_val) ==
    LET mask == {i \in 1..Len(protected_attr) : protected_attr[i] = group_val}
    IN  <<Cardinality({i \in mask : y_pred[i] = favorable_label}), 1>>
selection_rate(y_pred, protected_attr, favorable_label, group_val) ==
    LET mask == {i \in 1..Len(protected_attr) : protected_attr[i] = group_val}
    IN  IF Cardinality(mask) = 0 THEN <<0, 1>>
        ELSE <<Cardinality({i \in mask : y_pred[i] = favorable_label}), Cardinality(mask)>>

\* the value 999.0 of line 141, in ten-thousandths
Sentinel999 == 9990000

\* lines 140-143 and 148: round(disparate_impact, 4), in ten-thousandths
DisparateImpact(rate_a, rate_b) ==
    IF rate_b[1] = 0
    THEN IF rate_a[1] = 0 THEN 0 ELSE Sentinel999
    ELSE RoundDiv(rate_a[1] * rate_b[2], rate_a[2] * rate_b[1], 10000)

\* lines 145 and 149: round(rate_b - rate_a, 4), in ten-thousandths
DemographicParityDiff(rate_a, rate_b) ==
    RoundDiv(rate_b[1] * rate_a[2] - rate_a[1] * rate_b[2], rate_a[2] * rate_b[2], 10000)

\* what the function raises: indexing an empty or one-element np.unique result
MetricsRaised ==
    [raised |-> TRUE, error |-> "IndexError", disparate_impact |-> 0,
     demographic_parity_difference |-> 0, favorable_label |-> "",
     groups_compared |-> <<>>]

calculate_fairness_metrics(y_true, y_pred, protected_attr) ==
    LET unique_labels == NpUnique(y_true)
        unique_groups == NpUnique(protected_attr)
    IN  IF Len(unique_labels) = 0 \/ Len(unique_groups) < 2
        THEN MetricsRaised
        ELSE LET favorable_label == FavorableLabel(unique_labels)
                 group_a == GroupA(unique_groups)
                 group_b == GroupB(unique_groups)
                 rate_a  == selection_rate(y_pred, protected_attr, favorable_label, group_a)
                 rate_b  == selection_rate(y_pred, protected_attr, favorable_label, group_b)
             IN  [raised |-> FALSE, error |-> "",
                  disparate_impact |-> DisparateImpact(rate_a, rate_b),
                  demographic_parity_difference |-> DemographicParityDiff(rate_a, rate_b),
                  favorable_label |-> ToStr(favorable_label),
                  groups_compared |-> <<ToStr(group_a), ToStr(group_b)>>]

\* process_csv line 244 (and mitigate 628, 679), rounded to 2 decimals at
\* lines 320, 682-683: max(0, 100 - abs(dpd) * 100), in hundredths
FairnessScore(m) ==
    LET raw == 10000 - Abs(m.demographic_parity_difference)
    IN  IF raw > 0 THEN raw ELSE 0

(***************************************************************************)
(* numpy arrays.  An ndarray is [shape, data] with data in row-major       *)
(* (C) order; explainer.shap_values returns one ndarray or a Python list    *)
(* of them (one per class): [is_list, items].  A mean is held exactly as    *)
(* [num, den]: the vector of sums and the common count that divides them.   *)
(***************************************************************************)
RECURSIVE SumSeq(_)
SumSeq(q) == IF Len(q) = 0 THEN 0 ELSE q[1] + SumSeq(Tail(q))

\* np.abs
NpAbs(x) == [i \in 1..Len(x) |-> Abs(x[i])]

\* np.zeros(n)
NpZeros(n) == [num |-> [i \in 1..n |-> 0], den |-> 1]

\* np.abs(m).mean(axis=0) of a matrix of shape (rows, cols)
MeanAbsAxis0(rows, cols, data) ==
    [num |-> [j \in 1..cols |->
                SumSeq([i \in 1..rows |-> NpAbs(data)[(i - 1) * cols + j]])],
     den |-> rows]

\* np.abs(m).mean(axis=1) of a matrix of shape (rows, cols)
MeanAbsAxis1(rows, cols, data) ==
    [num |-> [i \in 1..rows |->
                SumSeq([j \in 1..cols |-> NpAbs(data)[(i - 1) * cols + j]])],
     den |-> cols]

\* np.abs(t).mean(axis=(0, 2)) of a tensor of shape (d0, d1, d2)
MeanAbsAxis02(d0, d1, d2, data) ==
    [num |-> [b \in 1..d1 |->
                SumSeq([k \in 1..(d0 * d2) |->
                    NpAbs(data)[((k - 1) \div d2) * d1 * d2 + (b - 1) * d2
                                + ((k - 1) % d2) + 1]])],
     den |-> d0 * d2]

\* mean_abs_shap = None
NoneVec == [num |-> <<>>, den |-> 0]

\* lines 264-269 and 454-460: the slice of class 1 of a per-class list when
\* it has more than one class, else its only slice; an array is taken whole
SelectSlice(raw) ==
    IF raw.is_list
    THEN IF Len(raw.items) > 1 THEN raw.items[2] ELSE raw.items[1]
    ELSE raw.items[1]

\* process_csv lines 276-286: a 2-D array
AuditAggregate2DSwapped(a, n) ==
    IF a.shape[1] = n THEN MeanAbsAxis1(a.shape[1], a.shape[2], a.data)
    ELSE IF a.shape[2] = n THEN MeanAbsAxis0(a.shape[1], a.shape[2], a.data)
    ELSE IF Len(a.data) % n = 0 THEN MeanAbsAxis0(Len(a.data) \div n, n, a.data)
    ELSE NoneVec
AuditAggregate2D(a, n) ==
    IF a.shape[2] = n THEN MeanAbsAxis0(a.shape[1], a.shape[2], a.data)
    ELSE IF a.shape[1] = n THEN MeanAbsAxis1(a.shape[1], a.shape[2], a.data)
    ELSE IF Len(a.data) % n = 0 THEN MeanAbsAxis0(Len(a.data) \div n, n, a.data)
    ELSE NoneVec

\* process_csv lines 272-291
AuditAggregate(a, n) ==
    IF Len(a.shape) = 2 THEN AuditAggregate2D(a, n)
    ELSE IF Len(a.shape) = 3
    THEN MeanAbsAxis02(a.shape[1], a.shape[2], a.shape[3], a.data)
    ELSE [num |-> NpAbs(a.data), den |-> 1]

\* a list with no slice: shap_values_raw[0] raises
ShapRaised == [raised |-> TRUE, num |-> <<>>, den |-> 0]

\* process_csv lines 264-297: mean_abs_shap, of size n_features
AuditNormalizer(raw, n) ==
    IF raw.is_list /\ Len(raw.items) = 0 THEN ShapRaised
    ELSE LET m == AuditAggregate(SelectSlice(raw), n)
             v == IF m = NoneVec \/ Len(m.num) # n THEN NpZeros(n) ELSE m
         IN  [raised |-> FALSE, num |-> v.num, den |-> v.den]

\* explain lines 471-498: the flattened array
ExplainAggregateNoAbs(flat, n) ==
    IF Len(flat) = n THEN [num |-> flat, den |-> 1]
    ELSE IF Len(flat) % n = 0 THEN MeanAbsAxis0(Len(flat) \div n, n, flat)
    ELSE IF Len(flat) > n THEN [num |-> NpAbs(SubSeq(flat, 1, n)), den |-> 1]
    ELSE [num |-> NpAbs(flat) \o [i \in 1..(n - Len(flat)) |-> 0], den |-> 1]
ExplainAggregate(flat, n) ==
    IF Len(flat) = n THEN [num |-> NpAbs(flat), den |-> 1]
    ELSE IF Len(flat) % n = 0 THEN MeanAbsAxis0(Len(flat) \div n, n, flat)
    ELSE IF Len(flat) > n THEN [num |-> NpAbs(SubSeq(flat, 1, n)), den |-> 1]
    ELSE [num |-> NpAbs(flat) \o [i \in 1..(n - Len(flat)) |-> 0], den |-> 1]

\* explain lines 454-505
ExplainNormalizer(raw, n) ==
    IF raw.is_list /\ Len(raw.items) = 0 THEN ShapRaised
    ELSE LET v == ExplainAggregate(SelectSlice(raw).data, n)
         IN  [raised |-> FALSE, num |-> v.num, den |-> v.den]

(***************************************************************************)
(* The ranking (process_csv 299-312, explain 510-550).                     *)
(***************************************************************************)
\* np.argsort(v) with the default kind='quicksort', which is not a stable
\* sort: every index order that puts the values in ascending order is an
\* outcome (1-based indices here)
RECURSIVE ArgsortFrom(_, _)
ArgsortFrom(v, rest) ==
    IF rest = {} THEN {<<>>}
    ELSE LET lo == Min({v[i] : i \in rest})
         IN  UNION { { <<i>> \o t : t \in ArgsortFrom(v, rest \ {i}) }
                     : i \in {j \in rest : v[j] = lo} }
NpArgsort(v) == ArgsortFrom(v, 1..Len(v))

\* a[::-1]
Reversed(a) == [i \in 1..Len(a) |-> a[Len(a) + 1 - i]]

\* the k of "top 5" (process_csv line 312, explain line 512)
TopK == 5

\* a[:k] and a[-k:]
FirstK(a, k) == SubSeq(a, 1, IF Len(a) < k THEN Len(a) ELSE k)
LastK(a, k) == SubSeq(a, IF Len(a) < k THEN 1 ELSE Len(a) - k + 1, Len(a))

\* one entry of feature_importance: the feature's index in feature_names and
\* round(mean_abs_shap[idx], 4)
Entry(v, idx) == [feature |-> idx, importance |-> v[idx]]

\* process_csv 300-312, given the outcome of np.argsort
AuditTopFeatures(v, argsort) ==
    LET sorted_indices == Reversed(argsort)
        kept == SelectSeq(sorted_indices, LAMBDA idx : idx <= Len(v))
    IN  FirstK([i \in 1..Len(kept) |-> Entry(v, kept[i])], TopK)

\* explain 512-550, given the outcome of np.argsort
ExplainTopFeatures(v, argsort) ==
    LET top_5_indices == Reversed(LastK(argsort, TopK))
        kept == SelectSeq(top_5_indices, LAMBDA idx : idx <= Len(v))
    IN  [i \in 1..Len(kept) |-> Entry(v, kept[i])]

(***************************************************************************)
(* DataFrames.  An upload is [columns, rows]: the header names and the     *)
(* rows of cells as the CSV text holds them, "" an empty (missing) cell; a *)
(* file of 0 bytes has no columns.  A DataFrame is [columns, index, rows]: *)
(* columns carry the dtype kind read_csv infers, index the row labels.     *)
(* Cells are the CSV strings until the label encoding, integers after it.  *)
(***************************************************************************)
\* the characters of the modelled cells and names, in code point order
AsciiOrder == "0123456789ABCDEFGHIJKLMNOPQRSTUVWXYZ_abcdefghijklmnopqrstuvwxyz"
CharCode(c) == CHOOSE i \in 1..Len(AsciiOrder) : SubSeq(AsciiOrder, i, i) = c

\* a < b on Python strings
RECURSIVE StrLess(_, _)
StrLess(a, b) ==
    IF Len(b) = 0 THEN FALSE
    ELSE IF Len(a) = 0 THEN TRUE
    ELSE IF SubSeq(a, 1, 1) = SubSeq(b, 1, 1)
         THEN StrLess(SubSeq(a, 2, Len(a)), SubSeq(b, 2, Len(b)))
         ELSE CharCode(SubSeq(a, 1, 1)) < CharCode(SubSeq(b, 1, 1))

\* sorted(set of strings): LabelEncoder.classes_
RECURSIVE SortedStrings(_)
SortedStrings(S) ==
    IF S = {} THEN <<>>
    ELSE LET lo == CHOOSE x \in S : \A y \in S \ {x} : StrLess(x, y)
         IN  <<lo>> \o SortedStrings(S \ {lo})

\* the position of a value in a sequence that holds it
IndexOf(q, v) == CHOOSE i \in 1..Len(q) : q[i] = v

IsDigit(c) == \E i \in 1..Len(Digits) : SubSeq(Digits, i, i) = c
IsNumeral(cell) ==
    /\ Len(cell) > 0
    /\ \A i \in 1..Len(cell) : IsDigit(SubSeq(cell, i, i))

\* int(cell) of a numeral
RECURSIVE ParseInt(_)
ParseInt(cell) ==
    IF Len(cell) = 0 THEN 0
    ELSE ParseInt(SubSeq(cell, 1, Len(cell) - 1)) * 10
         + (IndexOf([i \in 1..Len(Digits) |-> SubSeq(Digits, i, i)],
                    SubSeq(cell, Len(cell), Len(cell))) - 1)

\* the column j of a frame, as a sequence
ColumnValues(frame, j) == [i \in 1..Len(frame.rows) |-> frame.rows[i][j]]
ColumnIndex(frame, name) == CHOOSE j \in 1..Len(frame.columns) : frame.columns[j].name = name
Column(frame, name) == ColumnValues(frame, ColumnIndex(frame, name))

\* pd.read_csv: the dtype of a column is numeric when every cell that is
\* present is a number, object otherwise
InferKind(cells) ==
    IF \A i \in 1..Len(cells) : cells[i] = "" \/ IsNumeral(cells[i])
    THEN "number" ELSE "object"
ReadCsv(file) ==
    [columns |-> [j \in 1..Len(file.columns) |->
                    [name |-> file.columns[j],
                     kind |-> InferKind([i \in 1..Len(file.rows) |-> file.rows[i][j]])]],
     index |-> [i \in 1..Len(file.rows) |-> i - 1],
     rows |-> file.rows]

\* the rows of a frame at the given positions, in that order
TakeRows(frame, positions) ==
    [columns |-> frame.columns,
     index |-> [k \in 1..Len(positions) |-> frame.index[positions[k]]],
     rows |-> [k \in 1..Len(positions) |-> frame.rows[positions[k]]]]

\* df.dropna(): the rows without a missing cell
DropNa(frame) ==
    TakeRows(frame, SelectSeq([i \in 1..Len(frame.rows) |-> i],
                              LAMBDA i : \A j \in 1..Len(frame.columns) :
                                            frame.rows[i][j] # ""))

\* df.empty: no rows or no columns
IsEmpty(frame) == Len(frame.rows) = 0 \/ Len(frame.columns) = 0

\* LabelEncoder().fit(column).classes_ for an object column; <<>> for a
\* numeric column, which gets no encoder
EncoderClasses(frame, j) ==
    IF frame.columns[j].kind = "object"
    THEN SortedStrings(Range(ColumnValues(frame, j)))
    ELSE <<>>

\* the loop `for col in df.columns: ... df[col] = le.fit_transform(...)`;
\* label_encoders is held as the classes_ of each column, by position
LabelEncoders(frame) == [j \in 1..Len(frame.columns) |-> EncoderClasses(frame, j)]
EncodeFrame(frame) ==
    [columns |-> frame.columns,
     index |-> frame.index,
     rows |-> [i \in 1..Len(frame.rows) |->
                [j \in 1..Len(frame.columns) |->
                    IF frame.columns[j].kind = "object"
                    THEN IndexOf(EncoderClasses(frame, j), frame.rows[i][j]) - 1
                    ELSE ParseInt(frame.rows[i][j])]]]

\* df.drop(columns=cols_to_drop)
DropColumns(frame, names) ==
    LET keep == SelectSeq([j \in 1..Len(frame.columns) |-> j],
                          LAMBDA j : frame.columns[j].name \notin names)
    IN  [columns |-> [k \in 1..Len(keep) |-> frame.columns[keep[k]]],
         index |-> frame.index,
         rows |-> [i \in 1..Len(frame.rows) |->
                    [k \in 1..Len(keep) |-> frame.rows[i][keep[k]]]]]

(***************************************************************************)
(* Feature preparation, the split and the classifier (process_csv 185-227) *)
(***************************************************************************)
\* lines 191 and 197: the identifier patterns on a lower-cased name
IsIdentifierName(col_lower) ==
    \/ AnyKeywordIn(<<"name", "email", "phone">>, col_lower)
    \/ /\ Contains(col_lower, "id")
       /\ ~AnyKeywordIn(<<"valid", "video", "acid", "fluid">>, col_lower)

\* lines 188-200: the identifier columns appended to cols_to_drop
IdentifierColumnsNoGuard(columns, target, protected) ==
    { columns[j].name : j \in { k \in 1..Len(columns) :
        IsIdentifierName(Lower(columns[k].name)) } }
IdentifierColumns(columns, target, protected) ==
    { columns[j].name : j \in { k \in 1..Len(columns) :
        /\ IsIdentifierName(Lower(columns[k].name))
        /\ columns[k].name # target
        /\ columns[k].name # protected } }

\* line 204
potential_targets ==
    <<"Loan_Approved", "Loan_Status", "Target", "Outcome", "Approved", "Status">>

\* lines 187-208: cols_to_drop of process_csv
AuditColsToDrop(columns, target, protected) ==
    ({target} \cup IdentifierColumns(columns, target, protected)
              \cup Range(potential_targets))
    \cap Range(ColumnNames(columns))

\* np.random.RandomState(42).permutation(n), 1-based: the shuffle that
\* train_test_split(..., random_state=42) applies to n rows
Permutation42(n) ==
    IF n = 1 THEN <<1>> ELSE
    IF n = 2 THEN <<2, 1>> ELSE
    IF n = 3 THEN <<1, 2, 3>> ELSE
    IF n = 4 THEN <<2, 4, 1, 3>> ELSE
    IF n = 5 THEN <<2, 5, 3, 1, 4>> ELSE
    IF n = 6 THEN <<1, 2, 6, 3, 5, 4>> ELSE
    IF n = 7 THEN <<1, 2, 6, 3, 5, 4, 7>> ELSE
    IF n = 8 THEN <<2, 6, 1, 8, 3, 5, 4, 7>> ELSE
    IF n = 9 THEN <<8, 2, 6, 1, 9, 3, 5, 4, 7>> ELSE
    IF n = 10 THEN <<9, 2, 6, 1, 8, 3, 10, 5, 4, 7>> ELSE
    IF n = 11 THEN <<6, 1, 10, 11, 3, 2, 9, 5, 8, 4, 7>> ELSE
    IF n = 12 THEN <<11, 10, 1, 9, 6, 3, 2, 12, 5, 8, 4, 7>> ELSE
    IF n = 13 THEN <<12, 10, 1, 9, 6, 3, 2, 13, 5, 8, 11, 4, 7>> ELSE
    IF n = 14 THEN <<10, 12, 1, 13, 6, 9, 3, 2, 14, 5, 8, 11, 4, 7>> ELSE
    [i \in 1..n |-> i]

\* train_test_split(X, y, test_size=0.2, random_state=42): the row
\* positions of the test and of the train part; n_test = ceil(0.2 * n)
TestSize(n) == (n + 4) \div 5
TestPositions(n) == SubSeq(Permutation42(n), 1, TestSize(n))
TrainPositions(n) == SubSeq(Permutation42(n), TestSize(n) + 1, n)
\* it raises ValueError when the train part would be empty
SplitRaises(n) == n - TestSize(n) = 0

\* a[positions]
Pick(a, positions) == [k \in 1..Len(positions) |-> a[positions[k]]]

\* accuracy_score, rounded to 4 decimals (line 321), in ten-thousandths
Accuracy(y_test, y_pred) ==
    RoundDiv(Cardinality({i \in 1..Len(y_test) : y_test[i] = y_pred[i]}),
             Len(y_test), 10000)

(***************************************************************************)
(* get_representative_profile (main.py 339-376), on the encoded frame,     *)
(* given the row that .sample(1) draws.                                    *)
(***************************************************************************)
\* line 345: the rows whose target, as a string, is one of the rejected labels
RejectedLabels == {"0", "0.0", "No", "False", "Rejected"}
RejectedPositions(frame, target) ==
    SelectSeq([i \in 1..Len(frame.rows) |-> i],
              LAMBDA i : ToStr(Column(frame, target)[i]) \in RejectedLabels)

\* the rows .sample(1) can draw: any rejected row, any row if there is none
ProfileCandidates(frame, target) ==
    IF Len(RejectedPositions(frame, target)) = 0
    THEN 1..Len(frame.rows)
    ELSE Range(RejectedPositions(frame, target))

\* lines 361-364: safe_get
SafeGet(frame, pos, col_name) ==
    LET hits == {j \in 1..Len(frame.columns) :
                    Contains(Lower(frame.columns[j].name), Lower(col_name))}
    IN  IF hits = {} THEN "N/A" ELSE ToStr(frame.rows[pos][Min(hits)])

get_representative_profile(frame, target, protected, pos) ==
    [name |-> IF SafeGet(frame, pos, "name") # "N/A"
              THEN SafeGet(frame, pos, "name")
              ELSE "Applicant #" \o ToStr(frame.index[pos]),
     credit_score |-> SafeGet(frame, pos, "credit"),
     income |-> SafeGet(frame, pos, "income"),
     caste |-> IF InColumns(protected, frame.columns)
               THEN ToStr(Column(frame, protected)[pos]) ELSE "N/A",
     status |-> IF Len(RejectedPositions(frame, target)) = 0
                THEN "APPROVED" ELSE "REJECTED",
     protected_attribute |-> protected]

\* no aggregation run yet
ShapPending == [raised |-> FALSE, num |-> <<>>, den |-> 0]

\* the function not called yet
NotComputed ==
    [raised |-> FALSE, error |-> "pending", disparate_impact |-> 0,
     demographic_parity_difference |-> 0, favorable_label |-> "",
     groups_compared |-> <<>>]

(***************************************************************************)
(* Specification SpecDetect: detect_columns on bounded schemas and hints.  *)
(***************************************************************************)
MaxCols == 3

\* column names the schemas are built from, each with the dtype its data has
NamePool ==
    { [name |-> "Loan_Status",     kind |-> "object"],
      [name |-> "loan_status",     kind |-> "number"],
      [name |-> "Gender",          kind |-> "object"],
      [name |-> "Marriage_Status", kind |-> "object"],
      [name |-> "Months_Employed", kind |-> "number"],
      [name |-> "Applicant_Name",  kind |-> "object"],
      [name |-> "Customer_Name",   kind |-> "object"],
      [name |-> "Region",          kind |-> "object"] }

\* sequences of distinct columns
Schemas ==
    UNION { { s \in [1..n -> NamePool] : \A i, j \in 1..n : i # j => s[i].name # s[j].name }
            : n \in 1..MaxCols }

\* a hint is absent (""), names no column ("Missing"), or names a column
HintsFor(columns) == {"", "Missing"} \cup Range(ColumnNames(columns))

(***************************************************************************)
(* The request handlers: values shared by their steps.                     *)
(***************************************************************************)
NoFrame == [columns |-> <<>>, index |-> <<>>, rows |-> <<>>]
NoRequest ==
    [op |-> "", file |-> [columns |-> <<>>, rows |-> <<>>],
     target_column |-> "", protected_attribute |-> "", row_index |-> 0]
NoException == [type |-> "", status_code |-> 0, detail |-> ""]
NoResponse == [status_code |-> 0]

\* raise HTTPException(status_code=..., detail=...)
HTTPException(status_code, detail) ==
    [type |-> "HTTPException", status_code |-> status_code, detail |-> detail]
\* any other exception: it carries no status code
PyError(type, detail) == [type |-> type, status_code |-> 0, detail |-> detail]

\* counterfactual_check before its steps 8-11
NoFlip ==
    [original_prediction |-> 0, original_proba |-> 0,
     counterfactual_prediction |-> 0, counterfactual_proba |-> 0,
     current_value |-> 0, flipped_value |-> 0,
     original_group |-> "", flipped_group |-> "",
     original_outcome_label |-> "", counterfactual_outcome_label |-> ""]

\* the handler's locals before it assigns them
NoLocals ==
    [label_encoders |-> <<>>, X |-> NoFrame, y |-> <<>>, classes |-> <<>>,
     y_test |-> <<>>, y_pred |-> <<>>, accuracy |-> 0,
     fairness_metrics |-> NotComputed, fairness_score |-> 0,
     feature_importance |-> <<>>, shap_len |-> 0,
     df_balanced |-> NoFrame, samples_added |-> 0,
     fairness_metrics_bal |-> NotComputed, fairness_score_bal |-> 0,
     row_index |-> 0, original_row |-> <<>>, counterfactual |-> NoFlip]

\* `except Exception as e: raise HTTPException(status_code=500, detail=str(e))`
\* (lines 335-337, 565-567, 694-696, 1017-1019): HTTPException is itself an
\* Exception, so whatever was raised inside the try leaves as a 500
ExceptionResponse(e) == [status_code |-> 500, detail |-> e.detail, raised |-> e.type]

\* check_rbi_compliance before a call
NoForm == [disparate_impact |-> 0, demographic_parity_difference |-> 0,
           protected_attribute |-> ""]
NoResults == [compliance_checks |-> <<>>, overall_status |-> "", risk_level |-> "",
              recommendations |-> <<>>, financial_impact |-> FALSE,
              legal_opinion |-> <<>>]

\* no feature matrix prepared, no explainer call made
NoPrep == [op |-> "", done |-> FALSE, identifiers |-> {}, feature_names |-> <<>>,
           balanced_feature_names |-> <<>>, protected_read |-> ""]
NoCall == [op |-> "", X_test |-> 0, X_shap |-> 0, random_state |-> 0, called |-> FALSE]

\* the variables of the other specifications, at rest
DetectIdle == schema = <<>> /\ hintT = "" /\ hintP = "" /\ roles = Pending
FairIdle ==
    /\ evalSplit = [y_true |-> <<>>, y_pred |-> <<>>, protected_attr |-> <<>>]
    /\ metrics = NotComputed
    /\ fairness_score = 0
ShapIdle ==
    /\ shap_values_raw = [is_list |-> FALSE, items |-> <<>>]
    /\ n_features = 0
    /\ auditShap = ShapPending
    /\ explainShap = ShapPending
RankIdle == mean_abs_shap = <<>> /\ auditTop = <<>> /\ explainTop = <<>>
HandlerIdle ==
    /\ pc = "idle" /\ request = NoRequest /\ df = NoFrame /\ locals = NoLocals
    /\ trained = 0 /\ exc = NoException /\ response = NoResponse
    /\ served = <<>>
FlipIdle == flip_values = <<>> /\ flip_model = <<>> /\ flip_row = <<>>
RbiIdle == rbi_form = NoForm /\ rbi_results = NoResults
PrepIdle == feature_prep = NoPrep /\ shap_call = NoCall

InitDetect ==
    /\ FairIdle /\ ShapIdle /\ RankIdle /\ HandlerIdle /\ FlipIdle /\ RbiIdle /\ PrepIdle
    /\ schema \in Schemas
    /\ hintT \in HintsFor(schema)
    /\ hintP \in HintsFor(schema)
    /\ roles = Pending

Detect ==
    /\ roles = Pending
    /\ roles' = detect_columns(schema, hintT, hintP)
    /\ UNCHANGED <<schema, hintT, hintP>>
    /\ UNCHANGED <<fairVars, shapVars, rankVars, handlerVars, flipVars, rbiVars, prepVars>>

NextDetect == Detect

SpecDetect == InitDetect /\ [][NextDetect]_vars

\* C4: a hint that is not a column of the schema is discarded, so that
\* detect_columns answers (returns or raises) exactly as it does for the same
\* schema with that hint absent; a hint that is a column is returned
\* unchanged as the role whenever roles are returned.
C4_BadHintDiscarded ==
    roles # Pending =>
        /\ (hintT # "" /\ ~InColumns(hintT, schema))
               => roles = detect_columns(schema, "", hintP)
        /\ (hintP # "" /\ ~InColumns(hintP, schema))
               => roles = detect_columns(schema, hintT, "")
        /\ (InColumns(hintT, schema) /\ ~roles.raised) => roles.target = hintT
        /\ (InColumns(hintP, schema) /\ ~roles.raised) => roles.protected = hintP

\* a bad target hint was discarded and the target inferred, beside a valid
\* protected hint that was kept
C4_Witness ==
    /\ roles # Pending /\ ~roles.raised
    /\ hintT = "Missing" /\ roles.target = "Loan_Status"
    /\ hintP = "Region" /\ roles.protected = "Region"

(***************************************************************************)
(* Specification SpecFairness: calculate_fairness_metrics and the score    *)
(* its callers derive, on bounded evaluation splits.  Labels and groups    *)
(* are the integers the callers pass (label-encoded or numeric columns).   *)
(***************************************************************************)
MaxSplit == 4
Labels == {0, 1}
Groups == {0, 1, 2}

\* the splits of n rows, their rows grouped by protected value
SplitsOfLen(n) ==
    { [y_true |-> [i \in 1..n |-> r[i][1]],
       y_pred |-> [i \in 1..n |-> r[i][2]],
       protected_attr |-> [i \in 1..n |-> r[i][3]]]
      : r \in { q \in [1..n -> Labels \X Labels \X Groups] :
                  \A i \in 1..(n - 1) : q[i][3] <= q[i + 1][3] } }

InitFairness ==
    /\ DetectIdle /\ ShapIdle /\ RankIdle /\ HandlerIdle /\ FlipIdle /\ RbiIdle /\ PrepIdle
    /\ evalSplit \in UNION {SplitsOfLen(n) : n \in 0..MaxSplit}
    /\ metrics = NotComputed
    /\ fairness_score = 0

\* process_csv 240-244, mitigate 627-628 and 678-679
ScoreSplit ==
    /\ metrics = NotComputed
    /\ LET m == calculate_fairness_metrics(evalSplit.y_true, evalSplit.y_pred,
                                           evalSplit.protected_attr)
       IN  /\ metrics' = m
           /\ fairness_score' = IF m.raised THEN 0 ELSE FairnessScore(m)
    /\ UNCHANGED evalSplit
    /\ UNCHANGED <<detectVars, shapVars, rankVars, handlerVars, flipVars, rbiVars, prepVars>>

NextFairness == ScoreSplit

SpecFairness == InitFairness /\ [][NextFairness]_vars

\* what the claims say, counted directly on the split
C5_Prot == evalSplit.protected_attr
C5_Fav == Max(Range(evalSplit.y_true))
C5_A == Min(Range(C5_Prot))
C5_B == Min(Range(C5_Prot) \ {C5_A})
C5_Members(g) == {i \in 1..Len(C5_Prot) : C5_Prot[i] = g}
C5_Hits(g) == Cardinality({i \in C5_Members(g) : evalSplit.y_pred[i] = C5_Fav})
C5_Size(g) == Cardinality(C5_Members(g))
C5_ExpectedDI ==
    IF C5_Hits(C5_B) = 0
    THEN IF C5_Hits(C5_A) = 0 THEN 0 ELSE 9990000
    ELSE RoundDiv(C5_Hits(C5_A) * C5_Size(C5_B), C5_Size(C5_A) * C5_Hits(C5_B), 10000)
\* the split without the rows of every group beyond the first two
C5_Keep == SelectSeq([i \in 1..Len(C5_Prot) |-> i], LAMBDA i : C5_Prot[i] \in {C5_A, C5_B})
C5_Restricted ==
    [y_true |-> [k \in 1..Len(C5_Keep) |-> evalSplit.y_true[C5_Keep[k]]],
     y_pred |-> [k \in 1..Len(C5_Keep) |-> evalSplit.y_pred[C5_Keep[k]]],
     protected_attr |-> [k \in 1..Len(C5_Keep) |-> C5_Prot[C5_Keep[k]]]]
C5_RestrictedMetrics ==
    calculate_fairness_metrics(C5_Restricted.y_true, C5_Restricted.y_pred,
                               C5_Restricted.protected_attr)
C5_Computed == metrics # NotComputed /\ Cardinality(Range(C5_Prot)) >= 2

\* C5 (as amended): on a split with at least two protected groups the
\* favourable label is the largest true label, the compared groups are the
\* two smallest protected values, disparate impact is rate(A)/rate(B) with
\* 0.0 and the sentinel 999.0 when rate(B) = 0, and the rows of further
\* groups change the result only by changing the favourable label.
C5_TwoGroupMetrics ==
    C5_Computed =>
        /\ ~metrics.raised
        /\ metrics.favorable_label = ToStr(C5_Fav)
        /\ metrics.groups_compared = <<ToStr(C5_A), ToStr(C5_B)>>
        /\ metrics.disparate_impact = C5_ExpectedDI
        /\ (Max(Range(C5_Restricted.y_true)) = C5_Fav) => metrics = C5_RestrictedMetrics

\* three groups, rate(B) = 0 and rate(A) > 0: the sentinel is returned
C5_Witness ==
    /\ C5_Computed
    /\ Cardinality(Range(C5_Prot)) = 3
    /\ C5_Hits(C5_B) = 0 /\ C5_Hits(C5_A) > 0
    /\ metrics.disparate_impact = 9990000

\* C5 as stated: groups beyond the first two never influence the result.
C5_OtherGroupsNeverInfluence ==
    C5_Computed => metrics = C5_RestrictedMetrics

\* C6: whenever a score is returned, 0 <= fairnessScore <= 100 and the
\* demographic parity difference is rate(B) - rate(A), within [-1, 1].
C6_ScoreBounds ==
    (metrics # NotComputed /\ ~metrics.raised) =>
        /\ 0 <= fairness_score /\ fairness_score <= 10000
        /\ -10000 <= metrics.demographic_parity_difference
        /\ metrics.demographic_parity_difference <= 10000
        /\ metrics.demographic_parity_difference =
              RoundDiv(C5_Hits(C5_B) * C5_Size(C5_A) - C5_Hits(C5_A) * C5_Size(C5_B),
                       C5_Size(C5_A) * C5_Size(C5_B), 10000)

\* the extreme case: rate(A) = 1 and rate(B) = 0 give -1.0 and score 0
C6_Witness ==
    /\ metrics # NotComputed /\ ~metrics.raised
    /\ metrics.demographic_parity_difference = -10000
    /\ fairness_score = 0

(***************************************************************************)
(* Specification SpecShap: the two aggregations on bounded raw tensors.    *)
(***************************************************************************)
MaxFeatures == 3
MaxFlat == 6
ShapValues == {-1, 0, 2}

\* the shapes of 1, 2 and 3 dimensions that hold len values
ShapesOfSize(len) ==
    {<<len>>}
    \cup {<<r, len \div r>> : r \in {d \in 1..len : len % d = 0}}
    \cup {s \in (1..len) \X (1..len) \X (1..len) : s[1] * s[2] * s[3] = len}

Arrays ==
    UNION { { [shape |-> sh, data |-> d] : sh \in ShapesOfSize(len),
                                           d \in [1..len -> ShapValues] }
            : len \in 1..MaxFlat }

ZerosLike(a) == [shape |-> a.shape, data |-> [i \in 1..Len(a.data) |-> 0]]

\* one array, or a per-class list: of no slice, of one, or of two of which
\* the explainer's other class is all zero
RawTensors ==
    { [is_list |-> FALSE, items |-> <<a>>] : a \in Arrays }
    \cup { [is_list |-> TRUE, items |-> <<a>>] : a \in Arrays }
    \cup { [is_list |-> TRUE, items |-> <<ZerosLike(a), a>>] : a \in Arrays }
    \cup { [is_list |-> TRUE, items |-> <<>>] }

InitShap ==
    /\ DetectIdle /\ FairIdle /\ RankIdle /\ HandlerIdle /\ FlipIdle /\ RbiIdle /\ PrepIdle
    /\ shap_values_raw \in RawTensors
    /\ n_features \in 1..MaxFeatures
    /\ auditShap = ShapPending
    /\ explainShap = ShapPending

\* process_csv lines 264-297
AuditAggregation ==
    /\ auditShap = ShapPending
    /\ auditShap' = AuditNormalizer(shap_values_raw, n_features)
    /\ UNCHANGED <<shap_values_raw, n_features, explainShap>>
    /\ UNCHANGED <<detectVars, fairVars, rankVars, handlerVars, flipVars, rbiVars, prepVars>>

\* explain lines 454-505
ExplainAggregation ==
    /\ explainShap = ShapPending
    /\ explainShap' = ExplainNormalizer(shap_values_raw, n_features)
    /\ UNCHANGED <<shap_values_raw, n_features, auditShap>>
    /\ UNCHANGED <<detectVars, fairVars, rankVars, handlerVars, flipVars, rbiVars, prepVars>>

NextShap == AuditAggregation \/ ExplainAggregation

SpecShap == InitShap /\ [][NextShap]_vars

\* the flattened length of the slice the aggregation works on
C8_FlatLen ==
    IF shap_values_raw.items = <<>> THEN 0
    ELSE Len(shap_values_raw.items[Len(shap_values_raw.items)].data)
C8_IsVector(v) ==
    /\ ~v.raised
    /\ Len(v.num) = n_features
    /\ v.den > 0
    /\ \A i \in 1..Len(v.num) : v.num[i] >= 0

\* C8: for a raw tensor whose flattened length is a positive multiple of the
\* feature count N, both aggregations return, without raising, a vector of
\* exactly N values, all >= 0.
C8_NormalizerTotal ==
    (C8_FlatLen > 0 /\ C8_FlatLen % n_features = 0) =>
        /\ (auditShap # ShapPending => C8_IsVector(auditShap))
        /\ (explainShap # ShapPending => C8_IsVector(explainShap))

\* a 3-D tensor inside a two-class list, aggregated by both handlers
C8_Witness ==
    /\ shap_values_raw.is_list /\ Len(shap_values_raw.items) = 2
    /\ Len(shap_values_raw.items[2].shape) = 3
    /\ C8_FlatLen = 2 * n_features
    /\ -1 \in Range(shap_values_raw.items[2].data)
    /\ auditShap # ShapPending /\ explainShap # ShapPending
    /\ \E i \in 1..Len(explainShap.num) : explainShap.num[i] > 0

\* the raw tensor is one S x N matrix
C9_IsSamplesByFeatures ==
    /\ ~shap_values_raw.is_list
    /\ Len(shap_values_raw.items[1].shape) = 2
    /\ shap_values_raw.items[1].shape[2] = n_features
C9_Rows == shap_values_raw.items[1].shape[1]
\* the sum over the rows of |column i|
C9_ColumnAbsSum(i) ==
    SumSeq([r \in 1..C9_Rows |->
              Abs(shap_values_raw.items[1].data[(r - 1) * n_features + i])])
C9_IsColumnMean(v) ==
    /\ ~v.raised
    /\ Len(v.num) = n_features
    /\ \A i \in 1..n_features : v.num[i] * C9_Rows = C9_ColumnAbsSum(i) * v.den

\* C9: for an S x N matrix the value of feature i is the mean over the S
\* rows of the absolute value of column i, in process_csv and in explain.
C9_ColumnMean ==
    C9_IsSamplesByFeatures =>
        /\ (auditShap # ShapPending => C9_IsColumnMean(auditShap))
        /\ (explainShap # ShapPending => C9_IsColumnMean(explainShap))

\* a 2 x 2 matrix with entries of both signs, aggregated by both handlers
C9_Witness ==
    /\ C9_IsSamplesByFeatures
    /\ n_features = 2 /\ C9_Rows = 2
    /\ shap_values_raw.items[1].data = <<-1, 2, 0, -1>>
    /\ auditShap # ShapPending /\ explainShap # ShapPending

\* the array the aggregations work on, when there is one
C23_Slice == SelectSlice(shap_values_raw)
C23_NoMultiple ==
    /\ shap_values_raw.items # <<>>
    /\ Len(C23_Slice.data) % n_features # 0
\* the first N absolute values, or all of them followed by zeros
C23_IsFallback(v) ==
    /\ ~v.raised
    /\ Len(v.num) = n_features
    /\ \A i \in 1..n_features :
          v.num[i] = v.den * (IF i <= Len(C23_Slice.data)
                              THEN Abs(C23_Slice.data[i]) ELSE 0)

\* C23: when the flattened length L of the tensor is not a multiple of N,
\* the normalizer returns the first N absolute values if L > N and the L
\* absolute values followed by N - L zeros if L < N, in process_csv and in
\* explain alike.
C23_FallbackTruncatesOrPads ==
    C23_NoMultiple =>
        /\ (auditShap # ShapPending => C23_IsFallback(auditShap))
        /\ (explainShap # ShapPending => C23_IsFallback(explainShap))

\* the raw tensor is an N x S matrix with S # N
C27_IsFeaturesBySamples ==
    /\ shap_values_raw.items # <<>>
    /\ Len(C23_Slice.shape) = 2
    /\ C23_Slice.shape[1] = n_features
    /\ C23_Slice.shape[2] # n_features
\* the raw tensor is an S x N x C tensor
C27_IsSamplesFeaturesClasses ==
    /\ shap_values_raw.items # <<>>
    /\ Len(C23_Slice.shape) = 3
    /\ C23_Slice.shape[2] = n_features
\* the sum of the absolute values of the entries of feature i, and their number
C27_RowAbsSum(i) ==
    LET S == C23_Slice.shape[2]
    IN  SumSeq([c \in 1..S |-> Abs(C23_Slice.data[(i - 1) * S + c])])
C27_SliceAbsSum(i) ==
    LET S == C23_Slice.shape[1]
        C == C23_Slice.shape[3]
    IN  SumSeq([k \in 1..(S * C) |->
                  Abs(C23_Slice.data[((k - 1) \div C) * n_features * C
                                     + (i - 1) * C + ((k - 1) % C) + 1])])
C27_IsOwnMean(v) ==
    /\ ~v.raised
    /\ Len(v.num) = n_features
    /\ C27_IsFeaturesBySamples =>
          \A i \in 1..n_features :
              v.num[i] * C23_Slice.shape[2] = C27_RowAbsSum(i) * v.den
    /\ C27_IsSamplesFeaturesClasses =>
          \A i \in 1..n_features :
              v.num[i] * C23_Slice.shape[1] * C23_Slice.shape[3]
                  = C27_SliceAbsSum(i) * v.den

\* C27: for an N x S matrix (S # N) and for an S x N x C tensor the value
\* of feature i is the mean of the absolute values of the entries of
\* feature i only, in process_csv and in explain alike.
C27_OwnEntriesOnly ==
    (C27_IsFeaturesBySamples \/ C27_IsSamplesFeaturesClasses) =>
        /\ (auditShap # ShapPending => C27_IsOwnMean(auditShap))
        /\ (explainShap # ShapPending => C27_IsOwnMean(explainShap))

(***************************************************************************)
(* Specification SpecRank: the two rankings on bounded importance vectors; *)
(* a behaviour is one request, so one of the two handlers ranks.           *)
(***************************************************************************)
MaxRankFeatures == 6
Importances == {0, 1, 2}

InitRank ==
    /\ DetectIdle /\ FairIdle /\ ShapIdle /\ HandlerIdle /\ FlipIdle /\ RbiIdle /\ PrepIdle
    /\ mean_abs_shap \in UNION {[1..n -> Importances] : n \in 1..MaxRankFeatures}
    /\ auditTop = <<>>
    /\ explainTop = <<>>

\* process_csv lines 299-312
AuditRank ==
    /\ auditTop = <<>> /\ explainTop = <<>>
    /\ \E argsort \in NpArgsort(mean_abs_shap) :
          auditTop' = AuditTopFeatures(mean_abs_shap, argsort)
    /\ UNCHANGED <<mean_abs_shap, explainTop>>
    /\ UNCHANGED <<detectVars, fairVars, shapVars, handlerVars, flipVars, rbiVars, prepVars>>

\* explain lines 510-550
ExplainRank ==
    /\ auditTop = <<>> /\ explainTop = <<>>
    /\ \E argsort \in NpArgsort(mean_abs_shap) :
          explainTop' = ExplainTopFeatures(mean_abs_shap, argsort)
    /\ UNCHANGED <<mean_abs_shap, auditTop>>
    /\ UNCHANGED <<detectVars, fairVars, shapVars, handlerVars, flipVars, rbiVars, prepVars>>

NextRank == AuditRank \/ ExplainRank

SpecRank == InitRank /\ [][NextRank]_vars

C10_Ranked(top) ==
    /\ Len(top) <= TopK
    /\ Len(top) = (IF Len(mean_abs_shap) < 5 THEN Len(mean_abs_shap) ELSE 5)
    /\ \A i, j \in 1..Len(top) : i < j => top[i].importance >= top[j].importance
C10_TiesAscending(top) ==
    \A i, j \in 1..Len(top) :
        (i < j /\ top[i].importance = top[j].importance) => top[i].feature < top[j].feature

\* C10: the feature-importance list has min(5, N) entries, at most 5, with
\* non-increasing importances, and entries of equal importance in ascending
\* original feature index order, in process_csv and in explain.
C10_TopKStableOrder ==
    /\ (auditTop # <<>> => C10_Ranked(auditTop) /\ C10_TiesAscending(auditTop))
    /\ (explainTop # <<>> => C10_Ranked(explainTop) /\ C10_TiesAscending(explainTop))

(***************************************************************************)
(* The request handlers process_csv, explain, mitigate and                 *)
(* counterfactual_check (main.py 154-337, 378-567, 569-696, 908-1019),     *)
(* step by step.  Each runs inside `try: ... except Exception`, so a raise *)
(* moves the handler to its except clause.                                 *)
(***************************************************************************)
MaxRows == 6

\* uploads: a header and the data lines, a cell being the text between commas
GenderAgeLoan == <<"Gender", "Age", "Loan_Approved">>
GenderAgeLoanLines ==
    << <<"Female", "30", "No">>, <<"Male", "30", "Yes">>, <<"Female", "30", "Yes">>,
       <<"Male", "30", "No">>, <<"", "30", "Yes">> >>
\* test_robustness.py TEST 2
GenderAgeOutcome == <<"gender", "age", "outcome">>
GenderAgeOutcomeLines ==
    << <<"Male", "30", "1">>, <<"Male", "30", "0">>, <<"Female", "30", "1">> >>
\* test_robustness.py TEST 3: no target column
GenderAge == <<"gender", "age">>
GenderAgeLines == << <<"Male", "25">>, <<"Female", "30">> >>

\* the files of n data lines over the given lines, their lines kept in the
\* order of the list
FilesOfLen(columns, lines, n) ==
    { [columns |-> columns, rows |-> [i \in 1..n |-> lines[pick[i]]]] :
        pick \in { q \in [1..n -> 1..Len(lines)] :
                     \A i \in 1..(n - 1) : q[i] <= q[i + 1] } }

\* test_robustness.py TEST 1: 0 bytes
EmptyFile == [columns |-> <<>>, rows |-> <<>>]

Files ==
    {EmptyFile} \cup
    UNION { FilesOfLen(GenderAgeLoan, GenderAgeLoanLines, n)
            \cup FilesOfLen(GenderAgeOutcome, GenderAgeOutcomeLines, n)
            \cup FilesOfLen(GenderAge, GenderAgeLines, n) : n \in 0..MaxRows }

FormHints == { <<"", "">>, <<"Loan_Approved", "Gender">> }
RowIndexes == {0, 1, 9}

Requests ==
    { [op |-> op, file |-> file, target_column |-> h[1],
       protected_attribute |-> h[2], row_index |-> 0] :
         op \in {"process_csv", "explain", "mitigate"}, file \in Files, h \in FormHints }
    \cup
    { [op |-> "counterfactual_check", file |-> file, target_column |-> "",
       protected_attribute |-> h[2], row_index |-> r] :
         file \in Files, h \in FormHints, r \in RowIndexes }

Init ==
    /\ DetectIdle /\ FairIdle /\ ShapIdle /\ RankIdle /\ HandlerIdle /\ FlipIdle /\ RbiIdle /\ PrepIdle

idleOthers == <<schema, hintT, hintP, evalSplit, metrics, fairness_score,
                shapVars, rankVars, flipVars, rbiVars, prepVars, served>>

\* a raise inside the try
Raise(e) == pc' = "except" /\ exc' = e

\* the server takes a request
Receive ==
    /\ pc = "idle"
    /\ \E req \in Requests : request' = req
    /\ pc' = "read_csv"
    /\ UNCHANGED <<df, locals, roles, trained, exc, response, idleOthers>>

\* pd.read_csv (165, 392, 583, 923); counterfactual_check tests df.empty
\* right after it (925-926)
ReadCsvStep ==
    /\ pc = "read_csv"
    /\ IF Len(request.file.columns) = 0
       THEN Raise(PyError("EmptyDataError", "No columns to parse from file"))
            /\ UNCHANGED df
       ELSE /\ df' = ReadCsv(request.file)
            /\ IF request.op = "counterfactual_check" /\ IsEmpty(ReadCsv(request.file))
               THEN Raise(HTTPException(400, "Empty CSV file"))
               ELSE pc' = "dropna" /\ UNCHANGED exc
    /\ UNCHANGED <<request, locals, roles, trained, response, idleOthers>>

\* df.dropna() and, except in counterfactual_check, the df.empty test
\* (168-170, 394-396, 585-587, 929)
DropNaStep ==
    /\ pc = "dropna"
    /\ df' = DropNa(df)
    /\ IF request.op # "counterfactual_check" /\ IsEmpty(DropNa(df))
       THEN Raise(HTTPException(400, "Dataset is empty after dropping missing values."))
       ELSE pc' = "detect" /\ UNCHANGED exc
    /\ UNCHANGED <<request, locals, roles, trained, response, idleOthers>>

\* detect_columns (173, 398, 589, 932); counterfactual_check passes no
\* target hint
DetectStep ==
    /\ pc = "detect"
    /\ LET found == detect_columns(df.columns,
                        IF request.op = "counterfactual_check" THEN ""
                        ELSE request.target_column,
                        request.protected_attribute)
       IN  /\ roles' = found
           /\ IF found.raised
              THEN Raise(HTTPException(found.status_code, found.detail))
              ELSE /\ pc' = IF request.op = "counterfactual_check"
                            THEN "select_row" ELSE "encode"
                   /\ UNCHANGED exc
    /\ UNCHANGED <<request, df, locals, trained, response, idleOthers>>

\* counterfactual_check 934-941: the row the request names, row 0 when the
\* index is past the end; df.iloc raises on a frame without rows
SelectRowStep ==
    /\ pc = "select_row"
    /\ LET row_index == IF request.row_index >= Len(df.rows) THEN 0
                        ELSE request.row_index
       IN  IF roles.target = "" \/ roles.protected = ""
           THEN Raise(HTTPException(400, "Could not detect target or protected attribute"))
                /\ UNCHANGED locals
           ELSE IF row_index >= Len(df.rows)
           THEN Raise(PyError("IndexError", "single positional indexer is out-of-bounds"))
                /\ UNCHANGED locals
           ELSE /\ locals' = [locals EXCEPT !.row_index = row_index,
                                            !.original_row = df.rows[row_index + 1]]
                /\ pc' = "encode" /\ UNCHANGED exc
    /\ UNCHANGED <<request, df, roles, trained, response, idleOthers>>

\* cols_to_drop of explain (410-420) and mitigate (604-612): the target and
\* the identifier columns
TargetAndIdentifiers(columns, target, protected) ==
    {target} \cup IdentifierColumns(columns, target, protected)

\* the columns each handler keeps out of X (211, 424-433, 615, 951)
ColsToDrop(op, columns, target, protected) ==
    IF op = "process_csv" THEN AuditColsToDrop(columns, target, protected)
    ELSE IF op = "counterfactual_check" THEN {target}
    ELSE TargetAndIdentifiers(columns, target, protected)

\* label encoding in place and the feature matrix (178-212, 402-436,
\* 596-616, 944-952)
EncodeStep ==
    /\ pc = "encode"
    /\ df' = EncodeFrame(df)
    /\ locals' = [locals EXCEPT
          !.label_encoders = LabelEncoders(df),
          !.X = DropColumns(EncodeFrame(df),
                    ColsToDrop(request.op, df.columns, roles.target, roles.protected)),
          !.y = Column(EncodeFrame(df), roles.target)]
    /\ pc' = "fit"
    /\ UNCHANGED <<request, roles, trained, exc, response, idleOthers>>

\* what estimator.fit(X, y) does with its input: it raises on a matrix
\* without columns or rows, and LogisticRegression on a single class
FitError(op, X, y) ==
    IF Len(X.columns) = 0 THEN "Found array with 0 feature(s)"
    ELSE IF Len(y) = 0 THEN "Found array with 0 sample(s)"
    ELSE IF op # "process_csv" /\ Len(NpUnique(y)) < 2
    THEN "This solver needs samples of at least 2 classes in the data"
    ELSE ""

\* the rows a handler trains on: counterfactual_check takes them all (956),
\* the others the train part of the split
TrainRows(op, n) ==
    IF op = "counterfactual_check" THEN [i \in 1..n |-> i] ELSE TrainPositions(n)

\* train_test_split and model.fit (217-224, 442-445, 618-623, 955-956)
FitStep ==
    /\ pc = "fit"
    /\ LET n == Len(locals.y)
           y_train == Pick(locals.y, TrainRows(request.op, n))
           X_train == TakeRows(locals.X, TrainRows(request.op, n))
       IN  IF request.op # "counterfactual_check" /\ SplitRaises(n)
           THEN Raise(PyError("ValueError", "the resulting train set will be empty"))
                /\ UNCHANGED <<locals, trained>>
           ELSE IF FitError(request.op, X_train, y_train) # ""
           THEN Raise(PyError("ValueError", FitError(request.op, X_train, y_train)))
                /\ UNCHANGED <<locals, trained>>
           ELSE /\ trained' = trained + 1
                /\ locals' = [locals EXCEPT
                      !.classes = NpUnique(y_train),
                      !.y_test = IF request.op = "counterfactual_check" THEN <<>>
                                 ELSE Pick(locals.y, TestPositions(n))]
                /\ pc' = IF request.op = "explain" THEN "shap"
                         ELSE IF request.op = "counterfactual_check" THEN "flip"
                         ELSE "predict"
                /\ UNCHANGED exc
    /\ UNCHANGED <<request, df, roles, response, idleOthers>>

\* model.predict: one of the classes the model was fitted on, per row
Predictions(classes, n) == [1..n -> Range(classes)]

\* predictions and fairness of process_csv (227-244) and of the first model
\* of mitigate (624-628)
PredictStep ==
    /\ pc = "predict"
    /\ \E y_pred \in Predictions(locals.classes, Len(locals.y_test)) :
          IF ~InColumns(roles.protected, locals.X.columns)
          THEN Raise(PyError("KeyError", roles.protected)) /\ UNCHANGED locals
          ELSE LET protected_attr_test ==
                       Pick(Column(locals.X, roles.protected),
                            TestPositions(Len(locals.y)))
                   fairness_metrics ==
                       calculate_fairness_metrics(locals.y_test, y_pred,
                                                  protected_attr_test)
               IN  IF fairness_metrics.raised
                   THEN Raise(PyError(fairness_metrics.error,
                                      "index 1 is out of bounds for axis 0 with size 1"))
                        /\ UNCHANGED locals
                   ELSE /\ locals' = [locals EXCEPT
                              !.y_pred = y_pred,
                              !.accuracy = Accuracy(locals.y_test, y_pred),
                              !.fairness_metrics = fairness_metrics,
                              !.fairness_score = FairnessScore(fairness_metrics)]
                        /\ pc' = IF request.op = "mitigate" THEN "oversample"
                                 ELSE "shap"
                        /\ UNCHANGED exc
    /\ UNCHANGED <<request, df, roles, trained, response, idleOthers>>

\* what explainer.shap_values can hand back for a model of n_classes
\* classes on `samples` rows of `features` columns: one matrix, a list of
\* one matrix per class, or one (samples, features, classes) tensor
ShapPattern(fill, k) == IF fill = "zeros" THEN 0 ELSE (k % 3) - 1
ShapArray(shape, size, fill) ==
    [shape |-> shape, data |-> [k \in 1..size |-> ShapPattern(fill, k)]]
ExplainerOutputs(samples, features, n_classes) ==
    UNION { { [is_list |-> FALSE,
               items |-> <<ShapArray(<<samples, features>>, samples * features, fill)>>],
              [is_list |-> TRUE,
               items |-> [c \in 1..n_classes |->
                            ShapArray(<<samples, features>>, samples * features, fill)]],
              [is_list |-> FALSE,
               items |-> <<ShapArray(<<samples, features, n_classes>>,
                                     samples * features * n_classes, fill)>>] }
            : fill \in {"zeros", "mixed"} }
    \cup \* shapes the handlers do not expect: the matrix transposed, a
         \* vector one entry too long, a list without any slice
       { [is_list |-> FALSE,
          items |-> <<ShapArray(<<features, samples>>, samples * features, "mixed")>>],
         [is_list |-> FALSE,
          items |-> <<ShapArray(<<features + 1>>, features + 1, "mixed")>>],
         [is_list |-> TRUE, items |-> <<>>] }

\* feature_importance with the names of the features and the rounding to
\* 4 decimals (306-309, 541-544), in ten-thousandths
NamedImportance(top, den, feature_names) ==
    [i \in 1..Len(top) |->
        [feature |-> feature_names[top[i].feature].name,
         importance |-> RoundDiv(top[i].importance, den, 10000)]]

\* process_csv runs its SHAP analysis inside a try of its own (251, 315);
\* explain does not
ShapAbsorbedNever(op) == FALSE
ShapAbsorbed(op) == op = "process_csv"

\* an exception in the SHAP analysis: absorbed into an empty list (315-317),
\* or on its way to the handler's except clause
ShapFailure(e) ==
    IF ShapAbsorbed(request.op)
    THEN /\ locals' = [locals EXCEPT !.feature_importance = <<>>]
         /\ pc' = "respond" /\ UNCHANGED exc
    ELSE Raise(e) /\ UNCHANGED locals

\* the SHAP analysis: process_csv 251-317 wraps it in a try of its own and
\* answers with an empty list when it fails; in explain (449-552) a failing
\* explainer leaves through the handler's except
ShapStep ==
    /\ pc = "shap"
    /\ LET samples == Len(locals.y_test)
           feature_names == locals.X.columns
           n == Len(feature_names)
       IN  \/ \E raw \in ExplainerOutputs(samples, n, Len(locals.classes)) :
                LET m == IF request.op = "explain" THEN ExplainNormalizer(raw, n)
                         ELSE AuditNormalizer(raw, n)
                IN  IF m.raised
                    THEN ShapFailure(PyError("IndexError", "list index out of range"))
                    ELSE \E argsort \in NpArgsort(m.num) :
                           /\ locals' = [locals EXCEPT
                                 !.feature_importance =
                                     NamedImportance(
                                         IF request.op = "explain"
                                         THEN ExplainTopFeatures(m.num, argsort)
                                         ELSE AuditTopFeatures(m.num, argsort),
                                         m.den, feature_names),
                                 !.shap_len = Len(m.num)]
                           /\ pc' = "respond" /\ UNCHANGED exc
           \/ \* the explainer raises
              ShapFailure(PyError("Exception", "explainer failed"))
    /\ UNCHANGED <<request, df, roles, trained, response, idleOthers>>

\* mitigate 643-647: the rows of a group that carry the favourable label
FavorableRows(X, y, protected, group, favorable_label) ==
    SelectSeq([i \in 1..Len(y) |-> i],
              LAMBDA i : Column(X, protected)[i] = group /\ y[i] = favorable_label)

\* pd.concat([df, oversampled], ignore_index=True)
ConcatRows(frame, positions) ==
    [columns |-> frame.columns,
     index |-> [i \in 1..(Len(frame.rows) + Len(positions)) |-> i - 1],
     rows |-> frame.rows \o [k \in 1..Len(positions) |-> frame.rows[positions[k]]]]

\* minority_samples.sample(n=n_to_add, replace=True, random_state=42): n
\* draws among the minority rows
SampleWithReplacement(minority, n_to_add) ==
    { [k \in 1..n_to_add |-> minority[d[k]]] : d \in [1..n_to_add -> 1..Len(minority)] }

\* mitigate 630-661: random oversampling of the group with fewer
\* favourable rows
OversampleStep ==
    /\ pc = "oversample"
    /\ LET unique_labels == NpUnique(locals.y)
           favorable_label == FavorableLabel(unique_labels)
           unique_groups == NpUnique(Column(locals.X, roles.protected))
       IN  IF Len(unique_groups) < 2
           THEN Raise(PyError("IndexError",
                              "index 1 is out of bounds for axis 0 with size 1"))
                /\ UNCHANGED locals
           ELSE LET rows_a == FavorableRows(locals.X, locals.y, roles.protected,
                                            unique_groups[1], favorable_label)
                    rows_b == FavorableRows(locals.X, locals.y, roles.protected,
                                            unique_groups[2], favorable_label)
                    count_a == Len(rows_a)
                    count_b == Len(rows_b)
                    minority == IF count_a < count_b THEN rows_a ELSE rows_b
                    n_to_add == IF count_a < count_b THEN count_b - count_a
                                ELSE count_a - count_b
                IN  IF n_to_add > 0 /\ Len(minority) = 0
                    THEN Raise(PyError("ValueError",
                                       "a must be greater than 0 unless no samples are taken"))
                         /\ UNCHANGED locals
                    ELSE \E oversampled \in SampleWithReplacement(minority, n_to_add) :
                           /\ locals' = [locals EXCEPT
                                 !.df_balanced = ConcatRows(df, oversampled),
                                 !.samples_added = Len(oversampled)]
                           /\ pc' = "refit" /\ UNCHANGED exc
    /\ UNCHANGED <<request, df, roles, trained, response, idleOthers>>

\* mitigate 665-679: the second model, on the balanced frame, whose X drops
\* the target only
RefitStep ==
    /\ pc = "refit"
    /\ LET X_balanced == DropColumns(locals.df_balanced, {roles.target})
           y_balanced == Column(locals.df_balanced, roles.target)
           n == Len(y_balanced)
           y_train == Pick(y_balanced, TrainPositions(n))
           y_test == Pick(y_balanced, TestPositions(n))
       IN  IF FitError(request.op, TakeRows(X_balanced, TrainPositions(n)), y_train) # ""
           THEN Raise(PyError("ValueError",
                        FitError(request.op, TakeRows(X_balanced, TrainPositions(n)), y_train)))
                /\ UNCHANGED <<locals, trained>>
           ELSE \E y_pred \in Predictions(NpUnique(y_train), Len(y_test)) :
                  LET fairness_metrics ==
                          calculate_fairness_metrics(y_test, y_pred,
                              Pick(Column(X_balanced, roles.protected), TestPositions(n)))
                  IN  /\ trained' = trained + 1
                      /\ IF fairness_metrics.raised
                         THEN Raise(PyError(fairness_metrics.error,
                                    "index 1 is out of bounds for axis 0 with size 1"))
                              /\ UNCHANGED locals
                         ELSE /\ locals' = [locals EXCEPT
                                    !.fairness_metrics_bal = fairness_metrics,
                                    !.fairness_score_bal = FairnessScore(fairness_metrics)]
                              /\ pc' = "respond" /\ UNCHANGED exc
    /\ UNCHANGED <<request, df, roles, response, idleOthers>>

\* model.predict_proba(row)[1] of a two-class model, in ten-thousandths,
\* and the class model.predict gives with it
Probabilities == {2500, 7500}
PredictedClass(classes, proba) == IF proba > 5000 THEN classes[2] ELSE classes[1]

\* label_encoders[col].inverse_transform([int(v)])[0]
InverseTransform(label_encoders, frame, col, v) ==
    label_encoders[ColumnIndex(frame, col)][v + 1]
HasEncoder(label_encoders, frame, col) ==
    Len(label_encoders[ColumnIndex(frame, col)]) > 0

\* lines 987-988: the label of a predicted outcome
OutcomeLabel(label_encoders, frame, target, prediction) ==
    IF HasEncoder(label_encoders, frame, target)
    THEN InverseTransform(label_encoders, frame, target, prediction)
    ELSE ToStr(prediction)

\* line 974
FlippedValueStuck(unique_values, current_value) == unique_values[2]
FlippedValue(unique_values, current_value) ==
    IF current_value = unique_values[1] THEN unique_values[2] ELSE unique_values[1]

\* counterfactual_check 958-988: the prediction for the row, the flip of its
\* protected value, the prediction for the flipped row, the decoding
FlipStep ==
    /\ pc = "flip"
    /\ \E original_proba \in Probabilities, counterfactual_proba \in Probabilities :
        LET unique_values == NpUnique(Column(df, roles.protected))
            pos == locals.row_index + 1
        IN  IF Len(unique_values) < 2
            THEN Raise(HTTPException(400, "Protected attribute must have at least 2 values"))
                 /\ UNCHANGED locals
            ELSE IF ~InColumns(roles.protected, locals.X.columns)
            THEN Raise(PyError("KeyError", roles.protected)) /\ UNCHANGED locals
            ELSE IF ~HasEncoder(locals.label_encoders, df, roles.protected)
            THEN Raise(PyError("KeyError", roles.protected)) /\ UNCHANGED locals
            ELSE LET current_value == Column(locals.X, roles.protected)[pos]
                     flipped_value == FlippedValue(unique_values, current_value)
                     original_prediction == PredictedClass(locals.classes, original_proba)
                     counterfactual_prediction ==
                         PredictedClass(locals.classes, counterfactual_proba)
                 IN  /\ locals' = [locals EXCEPT !.counterfactual =
                           [original_prediction |-> original_prediction,
                            original_proba |-> original_proba,
                            counterfactual_prediction |-> counterfactual_prediction,
                            counterfactual_proba |-> counterfactual_proba,
                            current_value |-> current_value,
                            flipped_value |-> flipped_value,
                            original_group |->
                                InverseTransform(locals.label_encoders, df,
                                                 roles.protected, current_value),
                            flipped_group |->
                                InverseTransform(locals.label_encoders, df,
                                                 roles.protected, flipped_value),
                            original_outcome_label |->
                                OutcomeLabel(locals.label_encoders, df, roles.target,
                                             original_prediction),
                            counterfactual_outcome_label |->
                                OutcomeLabel(locals.label_encoders, df, roles.target,
                                             counterfactual_prediction)]]
                     /\ pc' = "respond" /\ UNCHANGED exc
    /\ UNCHANGED <<request, df, roles, trained, response, idleOthers>>

\* lines 991-1000: bias_confirmed and the kind of message
BiasConfirmed(c) == c.original_prediction # c.counterfactual_prediction
MessageKind(c) ==
    IF BiasConfirmed(c)
    THEN IF c.counterfactual_prediction > c.original_prediction
         THEN "APPROVED" ELSE "REJECTED"
    ELSE "NO BIAS"

\* the body each handler returns (319-333, 555-563, 681-692, 1002-1015)
ProcessCsvBody(pos) ==
    [status_code |-> 200, op |-> "process_csv",
     fairness_score |-> locals.fairness_score,
     accuracy |-> locals.accuracy,
     top_features |-> locals.feature_importance,
     details |-> [disparate_impact |-> locals.fairness_metrics.disparate_impact,
                  demographic_parity_difference |->
                      locals.fairness_metrics.demographic_parity_difference,
                  favorable_label |-> locals.fairness_metrics.favorable_label,
                  groups_compared |-> locals.fairness_metrics.groups_compared,
                  target_column |-> roles.target,
                  protected_attribute |-> roles.protected],
     representative_profile |->
         get_representative_profile(df, roles.target, roles.protected, pos)]
ExplainBody ==
    [status_code |-> 200, op |-> "explain",
     top_features |-> locals.feature_importance,
     debug_info |-> [feature_names_len |-> Len(locals.X.columns),
                     shap_len |-> locals.shap_len,
                     feature_names |-> ColumnNames(locals.X.columns)]]
MitigateBody ==
    [status_code |-> 200, op |-> "mitigate",
     original_score |-> locals.fairness_score,
     mitigated_score |-> locals.fairness_score_bal,
     improvement |-> locals.fairness_score_bal - locals.fairness_score,
     details |-> [original_disparate_impact |-> locals.fairness_metrics.disparate_impact,
                  mitigated_disparate_impact |-> locals.fairness_metrics_bal.disparate_impact,
                  original_demographic_parity |->
                      locals.fairness_metrics.demographic_parity_difference,
                  mitigated_demographic_parity |->
                      locals.fairness_metrics_bal.demographic_parity_difference,
                  samples_added |-> locals.samples_added]]
CounterfactualBody ==
    LET c == locals.counterfactual
    IN  [status_code |-> 200, op |-> "counterfactual_check",
         original_outcome |-> c.original_prediction,
         original_outcome_label |-> c.original_outcome_label,
         original_probability |-> c.original_proba,
         flipped_outcome |-> c.counterfactual_prediction,
         flipped_outcome_label |-> c.counterfactual_outcome_label,
         flipped_probability |-> c.counterfactual_proba,
         bias_confirmed |-> BiasConfirmed(c),
         original_group |-> c.original_group,
         flipped_group |-> c.flipped_group,
         protected_attribute |-> roles.protected,
         message |-> MessageKind(c),
         row_data |-> locals.original_row]

\* the handler returns; process_csv draws the representative row here
RespondStep ==
    /\ pc = "respond"
    /\ \/ /\ request.op = "process_csv"
          /\ \E pos \in ProfileCandidates(df, roles.target) :
                response' = ProcessCsvBody(pos)
       \/ request.op = "explain" /\ response' = ExplainBody
       \/ request.op = "mitigate" /\ response' = MitigateBody
       \/ request.op = "counterfactual_check" /\ response' = CounterfactualBody
    /\ pc' = "done"
    /\ UNCHANGED <<request, df, locals, roles, trained, exc, idleOthers>>

\* the handler's `except Exception as e` clause (335-337, 565-567, 694-696,
\* 1017-1019)
ExceptStep ==
    /\ pc = "except"
    /\ response' = ExceptionResponse(exc)
    /\ pc' = "done"
    /\ UNCHANGED <<request, df, locals, roles, trained, exc, idleOthers>>

\* the response is sent and the handler's frame is gone: the server waits
\* for the next request
SendStep ==
    /\ pc = "done"
    /\ pc' = "idle" /\ request' = NoRequest /\ df' = NoFrame /\ locals' = NoLocals
    /\ roles' = Pending /\ trained' = 0 /\ exc' = NoException
    /\ response' = NoResponse
    /\ UNCHANGED idleOthers

Next ==
    \/ Receive \/ ReadCsvStep \/ DropNaStep \/ DetectStep \/ SelectRowStep
    \/ EncodeStep \/ FitStep \/ PredictStep \/ ShapStep \/ OversampleStep
    \/ RefitStep \/ FlipStep \/ RespondStep \/ ExceptStep \/ SendStep

Spec == Init /\ [][Next]_vars

\* the handler of the request has ended
Answered(op) == pc = "done" /\ request.op = op

\* C1: process_csv on a dataset for which no target column can be resolved
\* ends with HTTP 400, never HTTP 500, and no classifier is trained before
\* the error is reported.
C1_NoTargetIs400 ==
    (Answered("process_csv") /\ roles.raised /\ roles.detail = "target")
        => (response.status_code = 400 /\ trained = 0)

\* no row of the upload survives dropna (a file of 0 bytes has none)
C2_NoRowSurvives ==
    \/ Len(request.file.columns) = 0
    \/ Len(DropNa(ReadCsv(request.file)).rows) = 0

\* C2: in each of the four handlers that load a dataset, when no row survives
\* the removal of rows with a missing value (a 0-byte upload included), the
\* request ends with HTTP 400, not 500, before role detection, row selection
\* or any model training.
C2_EmptyIs400 ==
    (pc = "done" /\ C2_NoRowSurvives)
        => (response.status_code = 400 /\ roles = Pending /\ trained = 0)

\* C3: process_csv on a dataset whose protected attribute has a single
\* distinct value ends with HTTP 400, never HTTP 500, and the fairness
\* metrics raise no IndexError on an evaluation split of one group.
C3_SingleGroupIs400 ==
    (Answered("process_csv") /\ ~roles.raised /\ roles # Pending
       /\ Cardinality(Range(Column(df, roles.protected))) = 1)
        => (response.status_code = 400 /\ exc.type # "IndexError")

\* the values a column of the upload holds, as the file spells them
C7_SourceValues(name) ==
    LET j == CHOOSE k \in 1..Len(request.file.columns) : request.file.columns[k] = name
    IN  { request.file.rows[i][j] : i \in 1..Len(request.file.rows) }
C7_Categorical(name) == df.columns[ColumnIndex(df, name)].kind = "object"

\* C7: for a categorical target and protected column, process_csv answers
\* with the dataset's own values: favorable_label, both groups_compared and
\* the representative row's protected value are source strings, never the
\* encoded integers.
C7_LabelsAreSourceValues ==
    (Answered("process_csv") /\ response.status_code = 200
       /\ C7_Categorical(roles.target) /\ C7_Categorical(roles.protected))
        => /\ response.details.favorable_label \in C7_SourceValues(roles.target)
           /\ \A i \in 1..Len(response.details.groups_compared) :
                 response.details.groups_compared[i] \in C7_SourceValues(roles.protected)
           /\ response.representative_profile.caste \in C7_SourceValues(roles.protected)

\* the name of the first column of the schema among the given positions
C19_First(hits) == IF hits = {} THEN "" ELSE schema[Min(hits)].name

\* the target as C19 describes it: a priority name ignoring case first, a
\* keyword outside 'months' otherwise
C19_PriorityHits ==
    { i \in 1..Len(schema) :
        \E k \in 1..Len(priority_targets) :
            Lower(schema[i].name) = Lower(priority_targets[k]) }
C19_KeywordHits ==
    { i \in 1..Len(schema) :
        /\ AnyKeywordIn(target_keywords, Lower(schema[i].name))
        /\ ~Contains(Lower(schema[i].name), "months") }
C19_Expected ==
    IF C19_PriorityHits # {} THEN C19_First(C19_PriorityHits)
    ELSE C19_First(C19_KeywordHits)

\* C19: with no valid target hint, the target is the first column whose name
\* equals a priority target name ignoring case; if there is none, the first
\* column whose lower-cased name contains a target keyword and not 'months';
\* a priority match wins over an earlier keyword match.
C19_PriorityIgnoringCase ==
    (roles # Pending /\ ~InColumns(hintT, schema)) =>
        /\ C19_Expected = "" => (roles.raised /\ roles.detail = "target")
        /\ ~roles.raised => roles.target = C19_Expected

\* the protected attribute as C20 describes it
C20_KeywordHits ==
    { i \in 1..Len(schema) : AnyKeywordIn(protected_keywords, Lower(schema[i].name)) }
C20_FallbackHits ==
    { i \in 1..Len(schema) :
        /\ schema[i].kind = "object"
        /\ schema[i].name # roles.target
        /\ ~Contains(Lower(schema[i].name), "name") }
C20_Expected ==
    IF C20_KeywordHits # {} THEN C19_First(C20_KeywordHits)
    ELSE C19_First(C20_FallbackHits)

\* C20: with no valid protected hint, the protected attribute is the first
\* column whose lower-cased name contains a protected keyword; if there is
\* none, the first categorical column that is neither the target nor a
\* personal-name column (any name carrying 'name'); never a numeric column
\* by the fallback.
C20_FallbackSkipsNameColumns ==
    (roles # Pending /\ ~InColumns(hintP, schema) /\ ~roles.raised) =>
        roles.protected = C20_Expected

\* C25: whenever detect_columns returns roles, the target and the protected
\* attribute are two different columns, for every schema and pair of hints.
C25_RolesDistinct ==
    (roles # Pending /\ ~roles.raised) => roles.target # roles.protected

(***************************************************************************)
(* process_csv invoked twice on the same upload and hints.  The split      *)
(* (217), the forest (223) and the SHAP subsample (257) are seeded, and    *)
(* the explainer and the sort are functions of their input: the second     *)
(* invocation meets the outcomes of the first.  The two .sample(1) of      *)
(* get_representative_profile (349, 355) carry no random_state: they draw  *)
(* from numpy's global generator, which every draw advances.               *)
(***************************************************************************)
AuditRequests == { req \in Requests : req.op = "process_csv" }

ReceiveAudit ==
    /\ pc = "idle" /\ served = <<>>
    /\ \E req \in AuditRequests : request' = req
    /\ pc' = "read_csv"
    /\ UNCHANGED <<df, locals, roles, trained, exc, response, idleOthers>>

\* the seeded steps come out as they did in the first invocation
SameOutcome ==
    served # <<>> =>
        IF pc = "except" THEN exc = served[1].exc
        ELSE IF pc = "shap" THEN locals.y_pred = served[1].locals.y_pred
        ELSE IF pc = "respond" THEN locals = served[1].locals
        ELSE TRUE

PredictAgain == PredictStep /\ SameOutcome'
ShapAgain == ShapStep /\ SameOutcome'

\* the same request arrives again, to a handler that starts afresh
InvokeAgain ==
    /\ pc = "done" /\ served = <<>>
    /\ served' = <<[locals |-> locals, exc |-> exc, response |-> response]>>
    /\ pc' = "read_csv" /\ df' = NoFrame /\ locals' = NoLocals /\ roles' = Pending
    /\ trained' = 0 /\ exc' = NoException /\ response' = NoResponse
    /\ UNCHANGED <<request, schema, hintT, hintP, evalSplit, metrics, fairness_score,
                   shapVars, rankVars, flipVars, rbiVars, prepVars>>

NextTwice ==
    \/ ReceiveAudit \/ ReadCsvStep \/ DropNaStep \/ DetectStep \/ EncodeStep
    \/ FitStep \/ PredictAgain \/ ShapAgain \/ RespondStep \/ ExceptStep
    \/ InvokeAgain

SpecTwice == Init /\ [][NextTwice]_vars

\* C17: two invocations of process_csv on the same dataset and hints return
\* identical responses: roles, metrics, feature importances and the
\* representative row.
C17_SameResponse ==
    (pc = "done" /\ served # <<>>) => response = served[1].response

\* C12: counterfactual_check on a dataset whose protected column has fewer
\* than two distinct values ends with HTTP 400, not HTTP 500, and returns no
\* counterfactual result.
C12_SingleValueIs400 ==
    (Answered("counterfactual_check") /\ roles # Pending /\ ~roles.raised
       /\ Len(df.rows) >= 1
       /\ Cardinality(Range(Column(df, roles.protected))) < 2)
        => response.status_code = 400

\* locals without what the SHAP analysis assigns
C18_Kept(l) == [l EXCEPT !.feature_importance = <<>>, !.shap_len = 0]

\* C18: in process_csv a failure or a shape anomaly of the SHAP analysis is
\* absorbed: the step always goes on to the response, changing nothing but
\* the feature-importance list, and the response carries the fairness score,
\* the accuracy and the fairness metrics computed before it.
C18_ShapFailureAbsorbed ==
    /\ [][(pc = "shap" /\ request.op = "process_csv")
            => (pc' = "respond" /\ exc' = exc /\ C18_Kept(locals') = C18_Kept(locals))]_vars
    /\ [](( Answered("process_csv") /\ locals.fairness_metrics # NotComputed)
            => /\ response.status_code = 200
               /\ response.fairness_score = locals.fairness_score
               /\ response.accuracy = locals.accuracy
               /\ response.details.disparate_impact
                    = locals.fairness_metrics.disparate_impact
               /\ response.details.demographic_parity_difference
                    = locals.fairness_metrics.demographic_parity_difference)

\* the explainer failed on an audit whose score is below 100
C18_Witness ==
    /\ Answered("process_csv") /\ response.status_code = 200
    /\ response.top_features = <<>>
    /\ response.fairness_score < 10000
    /\ response.accuracy < 10000

(***************************************************************************)
(* The flip rule of counterfactual_check (main.py 963-979) applied to a    *)
(* row, and then again to the flipped row.  The fitted model is a function *)
(* of the row; every feature but the protected one stays as it is, so it   *)
(* is held as a function of the protected value.                           *)
(***************************************************************************)
MaxCategories == 4

\* sorted(df[protected_attr].unique()) with at least the two values that
\* line 968 asks for
FlipDomains ==
    { SortedSeq(S) : S \in { T \in SUBSET (0..(MaxCategories - 1)) : Cardinality(T) >= 2 } }

\* one reading of the row: its protected value with model.predict and
\* model.predict_proba on it (960-961, 978-979)
FlipReading(model, value) ==
    [value |-> value, proba |-> model[value],
     prediction |-> PredictedClass(<<0, 1>>, model[value])]

InitFlip ==
    /\ DetectIdle /\ FairIdle /\ ShapIdle /\ RankIdle /\ HandlerIdle /\ RbiIdle /\ PrepIdle
    /\ flip_values \in FlipDomains
    /\ flip_model \in [0..(MaxCategories - 1) -> Probabilities]
    /\ \E current_value \in Range(flip_values) :
          flip_row = <<FlipReading(flip_model, current_value)>>

\* lines 971-979: the flip of the row's current protected value
FlipOnce ==
    /\ Len(flip_row) = 1
    /\ flip_row' = Append(flip_row,
          FlipReading(flip_model, FlippedValue(flip_values, flip_row[1].value)))
    /\ UNCHANGED <<flip_values, flip_model>>
    /\ UNCHANGED <<detectVars, fairVars, shapVars, rankVars, handlerVars, rbiVars, prepVars>>

\* the same lines on the flipped row
FlipBack ==
    /\ Len(flip_row) = 2
    /\ flip_row' = Append(flip_row,
          FlipReading(flip_model, FlippedValue(flip_values, flip_row[2].value)))
    /\ UNCHANGED <<flip_values, flip_model>>
    /\ UNCHANGED <<detectVars, fairVars, shapVars, rankVars, handlerVars, rbiVars, prepVars>>

NextFlip == FlipOnce \/ FlipBack

SpecFlip == InitFlip /\ [][NextFlip]_vars

\* C11, as stated: for every row, of a protected column of two or more
\* categories, the flip applied twice restores the row's protected value,
\* and with it the prediction and the probability.
C11_RoundTripEveryRow ==
    Len(flip_row) = 3 => flip_row[3] = flip_row[1]

\* C11, amended: the flip applied twice restores the protected value, the
\* prediction and the probability of every row whose protected value is one
\* of the two smallest distinct values of the column (every row of a
\* two-category column); a row of any other category ends at the second
\* smallest value.
C11_RoundTripFirstTwo ==
    Len(flip_row) = 3 =>
        IF flip_row[1].value \in {flip_values[1], flip_values[2]}
        THEN flip_row[3] = flip_row[1]
        ELSE flip_row[3].value = flip_values[2] /\ flip_row[2].value = flip_values[1]

C11_Witness ==
    /\ Len(flip_row) = 3
    /\ flip_row[1].value = flip_values[2]
    /\ flip_row[2].value = flip_values[1]
    /\ flip_row[2].proba # flip_row[1].proba
    /\ flip_row[3] = flip_row[1]

(***************************************************************************)
(* check_rbi_compliance (main.py 793-906).  The two metrics are held in    *)
(* ten-thousandths; a check is [regulation, status, severity]; the legal   *)
(* opinion is the sequence of the templates it joins.                      *)
(***************************************************************************)
\* line 811 (and 882): disparate_impact < 0.8
RuleAViolatedLe(disparate_impact) == disparate_impact <= 8000
RuleAViolated(disparate_impact) == disparate_impact < 8000

\* lines 811-829
RuleACheck(disparate_impact) ==
    IF RuleAViolated(disparate_impact)
    THEN [regulation |-> "RBI FREE-AI Framework (Fairness Sutra)",
          status |-> "VIOLATION", severity |-> "HIGH"]
    ELSE [regulation |-> "RBI FREE-AI Framework (Fairness Sutra)",
          status |-> "COMPLIANT", severity |-> "N/A"]

\* line 833
sensitive_attributes ==
    <<"caste", "religion", "gender", "race", "ethnicity", "caste_category">>

\* line 835
IsSensitive(protected_attribute) ==
    AnyKeywordIn(sensitive_attributes, Lower(protected_attribute))

\* line 836: abs(demographic_parity_difference) > 0.1
ParityExceeded(demographic_parity_difference) ==
    Abs(demographic_parity_difference) > 1000

\* lines 835-854: the checks of Article 15; none for a name that is not
\* sensitive
RuleBChecks(demographic_parity_difference, protected_attribute) ==
    IF IsSensitive(protected_attribute)
    THEN IF ParityExceeded(demographic_parity_difference)
         THEN <<[regulation |-> "Constitution of India - Article 15 (Anti-Discrimination)",
                 status |-> "CRITICAL", severity |-> "CRITICAL"]>>
         ELSE <<[regulation |-> "Constitution of India - Article 15 (Anti-Discrimination)",
                 status |-> "COMPLIANT", severity |-> "N/A"]>>
    ELSE <<>>

\* line 857: protected_attr_lower in [...], a list membership
psl_attributes == <<"caste", "caste_category", "income", "region">>
IsPrioritySector(protected_attribute) ==
    \E k \in 1..Len(psl_attributes) : Lower(protected_attribute) = psl_attributes[k]

\* lines 857-867
RuleCChecks(protected_attribute) ==
    IF IsPrioritySector(protected_attribute)
    THEN <<[regulation |-> "Priority Sector Lending (PSL) Guidelines",
            status |-> "WARNING", severity |-> "MEDIUM"]>>
    ELSE <<>>

\* the assignments to results["overall_status"] (805, 819, 844), in order
OverallStatus(disparate_impact, demographic_parity_difference, protected_attribute) ==
    IF IsSensitive(protected_attribute) /\ ParityExceeded(demographic_parity_difference)
    THEN "CRITICAL_VIOLATION"
    ELSE IF RuleAViolated(disparate_impact) THEN "NON-COMPLIANT"
    ELSE "COMPLIANT"

\* the assignments to results["risk_level"] (806, 820, 845), in order
RiskLevel(disparate_impact, demographic_parity_difference, protected_attribute) ==
    IF IsSensitive(protected_attribute) /\ ParityExceeded(demographic_parity_difference)
    THEN "CRITICAL"
    ELSE IF RuleAViolated(disparate_impact) THEN "HIGH"
    ELSE "LOW"

\* the appends to results["recommendations"] (821-822, 846-847, 867)
Recommendations(disparate_impact, demographic_parity_difference, protected_attribute) ==
    (IF RuleAViolated(disparate_impact)
     THEN <<"Immediately apply bias mitigation techniques",
            "Document fairness improvement plan for RBI submission">>
     ELSE <<>>)
    \o (IF IsSensitive(protected_attribute) /\ ParityExceeded(demographic_parity_difference)
        THEN <<"Suspend model deployment immediately",
               "Consult legal team for compliance strategy">>
        ELSE <<>>)
    \o (IF IsPrioritySector(protected_attribute)
        THEN <<"Review lending distribution across priority sectors">>
        ELSE <<>>)

\* lines 880-900: the templates of the legal opinion
LegalOpinion(disparate_impact, demographic_parity_difference, risk_level) ==
    IF RuleAViolated(disparate_impact)
    THEN <<"CRITICAL REGULATORY ALERT", "unfairly penalizing", "prohibited bias">>
         \o (IF risk_level \in {"HIGH", "CRITICAL"} THEN <<"Estimated regulatory liability">>
             ELSE <<>>)
         \o <<"Legal Recommendation">>
    ELSE <<"COMPLIANCE VERIFICATION", "acceptable fairness", "align with RBI FREE-AI">>
         \o (IF Abs(demographic_parity_difference) > 500
             THEN <<"Minor demographic parity gap">> ELSE <<>>)

check_rbi_compliance(disparate_impact, demographic_parity_difference, protected_attribute) ==
    LET risk_level == RiskLevel(disparate_impact, demographic_parity_difference,
                                protected_attribute)
    IN  [compliance_checks |->
             <<RuleACheck(disparate_impact)>>
             \o RuleBChecks(demographic_parity_difference, protected_attribute)
             \o RuleCChecks(protected_attribute),
         overall_status |-> OverallStatus(disparate_impact, demographic_parity_difference,
                                          protected_attribute),
         risk_level |-> risk_level,
         recommendations |-> Recommendations(disparate_impact,
                                 demographic_parity_difference, protected_attribute),
         \* line 870: the penalty estimate is present
         financial_impact |-> risk_level \in {"HIGH", "CRITICAL"},
         legal_opinion |-> LegalOpinion(disparate_impact, demographic_parity_difference,
                                        risk_level)]

\* the form fields tried
DisparateImpacts == {0, 7500, 7999, 8000, 10000, Sentinel999}
ParityDifferences == {-4000, -1001, -1000, -500, 0, 500, 501, 1000, 1001, 4000}
AttributeNames ==
    {"Gender", "Religion", "Race", "Age", "caste", "Caste_Category", "Sub_Caste",
     "income", "Income_Level", "Region", "Region_Code"}

InitRbi ==
    /\ DetectIdle /\ FairIdle /\ ShapIdle /\ RankIdle /\ HandlerIdle /\ FlipIdle /\ PrepIdle
    /\ rbi_form \in [disparate_impact : DisparateImpacts,
                     demographic_parity_difference : ParityDifferences,
                     protected_attribute : AttributeNames]
    /\ rbi_results = NoResults

CheckCompliance ==
    /\ rbi_results = NoResults
    /\ rbi_results' = check_rbi_compliance(rbi_form.disparate_impact,
                          rbi_form.demographic_parity_difference,
                          rbi_form.protected_attribute)
    /\ UNCHANGED rbi_form
    /\ UNCHANGED <<detectVars, fairVars, shapVars, rankVars, handlerVars, flipVars, prepVars>>

NextRbi == CheckCompliance

SpecRbi == InitRbi /\ [][NextRbi]_vars

\* the report is there
Reported == rbi_results # NoResults

\* the checks of the report under one regulation
ChecksOf(regulation) ==
    SelectSeq(rbi_results.compliance_checks, LAMBDA c : c.regulation = regulation)
RuleAEntries == ChecksOf("RBI FREE-AI Framework (Fairness Sutra)")
RuleBEntries == ChecksOf("Constitution of India - Article 15 (Anti-Discrimination)")
RuleCEntries == ChecksOf("Priority Sector Lending (PSL) Guidelines")

\* C13: disparate impact below 0.8 gives one HIGH-severity violation check
\* of Rule A, 0.8 or more one compliant check; when Rule A is the only rule
\* triggered, the overall status is NON-COMPLIANT and the risk level HIGH.
C13_RuleA ==
    Reported =>
      /\ Len(RuleAEntries) = 1
      /\ IF rbi_form.disparate_impact < 8000
         THEN RuleAEntries[1].status = "VIOLATION" /\ RuleAEntries[1].severity = "HIGH"
         ELSE RuleAEntries[1].status = "COMPLIANT"
      /\ (/\ rbi_form.disparate_impact < 8000
          /\ \A i \in 1..Len(rbi_results.compliance_checks) :
                rbi_results.compliance_checks[i].status \notin {"CRITICAL", "WARNING"})
            => (rbi_results.overall_status = "NON-COMPLIANT"
                /\ rbi_results.risk_level = "HIGH")

\* the scenario: 0.75, 'Gender', 0.05
C13_Witness ==
    /\ Reported
    /\ rbi_form = [disparate_impact |-> 7500, demographic_parity_difference |-> 500,
                   protected_attribute |-> "Gender"]
    /\ rbi_results.overall_status = "NON-COMPLIANT"
    /\ rbi_results.risk_level = "HIGH"
    /\ Len(rbi_results.compliance_checks) = 2

\* C14: the report always holds exactly one Rule B entry: CRITICAL when the
\* protected attribute name contains a sensitive keyword and the parity
\* difference exceeds 0.10 in absolute value, a COMPLIANT note in every other
\* case, a name without any keyword included.
C14_OneRuleBEntry ==
    Reported =>
      /\ Len(RuleBEntries) = 1
      /\ RuleBEntries[1].status =
           (IF /\ AnyKeywordIn(<<"caste", "religion", "gender", "race", "ethnicity">>,
                               Lower(rbi_form.protected_attribute))
               /\ Abs(rbi_form.demographic_parity_difference) > 1000
            THEN "CRITICAL" ELSE "COMPLIANT")

\* C15: a protected attribute name that contains caste, income or region
\* (the keyword matching of Rule B) always gets the WARNING advisory of
\* Rule C, whatever the two metrics are.
C15_AdvisoryByKeyword ==
    (Reported /\ AnyKeywordIn(<<"caste", "income", "region">>,
                              Lower(rbi_form.protected_attribute)))
        => (Len(RuleCEntries) = 1 /\ RuleCEntries[1].status = "WARNING")

\* the order COMPLIANT < WARNING < NON_COMPLIANT < CRITICAL, on the status of
\* a check and on the overall status
SeverityOfCheck(c) ==
    IF c.status = "CRITICAL" THEN 3
    ELSE IF c.status = "VIOLATION" THEN 2
    ELSE IF c.status = "WARNING" THEN 1
    ELSE 0
SeverityOfOverall(overall_status) ==
    IF overall_status = "CRITICAL_VIOLATION" THEN 3
    ELSE IF overall_status = "NON-COMPLIANT" THEN 2
    ELSE IF overall_status = "WARNING" THEN 1
    ELSE 0

\* C16: the overall status is the maximum severity among the triggered
\* rules; with the Rule C advisory alone it is WARNING, and a CRITICAL
\* result is never lowered.
C16_OverallIsMaximum ==
    Reported =>
      SeverityOfOverall(rbi_results.overall_status) =
        Max({ SeverityOfCheck(rbi_results.compliance_checks[i]) :
                i \in 1..Len(rbi_results.compliance_checks) })

\* C28: the narrative agrees with the verdict: the legal opinion opens with
\* the COMPLIANCE VERIFICATION template only when the overall status is
\* COMPLIANT, and under a violation (NON-COMPLIANT or CRITICAL_VIOLATION)
\* it contains the alert template and the financial-impact block is present.
C28_NarrativeAgrees ==
    Reported =>
        /\ rbi_results.legal_opinion[1] = "COMPLIANCE VERIFICATION"
              => rbi_results.overall_status = "COMPLIANT"
        /\ rbi_results.overall_status \in {"NON-COMPLIANT", "CRITICAL_VIOLATION"}
              => /\ "CRITICAL REGULATORY ALERT" \in Range(rbi_results.legal_opinion)
                 /\ rbi_results.financial_impact

(***************************************************************************)
(* Specification SpecFeatures: the feature matrix each handler trains on,  *)
(* from the schema of the upload and the roles detect_columns returns      *)
(* (process_csv 185-212 and 238, explain 409-436, mitigate 603-616, 626    *)
(* and 666-677, counterfactual_check 932 and 950-971).  A behaviour is one *)
(* request: one handler detects the roles and prepares its X.              *)
(***************************************************************************)
MaxFeatureCols == 3

FeaturePool ==
    { [name |-> "Loan_Approved", kind |-> "object"],
      [name |-> "Status",        kind |-> "object"],
      [name |-> "Gender",        kind |-> "object"],
      [name |-> "Resident_ID",   kind |-> "number"],
      [name |-> "Customer_Name", kind |-> "object"],
      [name |-> "Valid_Until",   kind |-> "number"] }

FeatureSchemas ==
    UNION { { s \in [1..n -> FeaturePool] : \A i, j \in 1..n : i # j => s[i] # s[j] }
            : n \in 1..MaxFeatureCols }

\* the protected_attribute field is absent or names a column; the
\* target_column field is absent or names the outcome column
FeatureHints(columns) == {""} \cup Range(ColumnNames(columns))
TargetHints == {"", "Loan_Approved"}

PrepOps == {"process_csv", "explain", "mitigate", "counterfactual_check"}

\* list(df.drop(columns=cols_to_drop).columns)
FeatureNames(columns, cols_to_drop) ==
    ColumnNames(DropColumns([columns |-> columns, index |-> <<>>, rows |-> <<>>],
                            cols_to_drop).columns)

\* X_test[protected] (238, 626, 677) and counterfactual_features[protected_attr]
\* (971): a column that is not in the frame raises KeyError
ReadProtected(feature_names, protected) ==
    IF protected \in Range(feature_names) THEN "ok" ELSE "KeyError"

InitFeatures ==
    /\ FairIdle /\ ShapIdle /\ RankIdle /\ HandlerIdle /\ FlipIdle /\ RbiIdle
    /\ shap_call = NoCall
    /\ schema \in FeatureSchemas
    /\ hintT \in TargetHints
    /\ hintP \in FeatureHints(schema)
    /\ roles = Pending
    /\ \E op \in PrepOps : feature_prep = [NoPrep EXCEPT !.op = op]
    \* counterfactual_check has no target_column field
    /\ feature_prep.op = "counterfactual_check" => hintT = ""

\* lines 173, 398, 589 and 932
DetectRoles ==
    /\ roles = Pending
    /\ roles' = detect_columns(schema,
                    IF feature_prep.op = "counterfactual_check" THEN "" ELSE hintT,
                    hintP)
    /\ UNCHANGED <<schema, hintT, hintP, feature_prep, shap_call>>
    /\ UNCHANGED <<fairVars, shapVars, rankVars, handlerVars, flipVars, rbiVars>>

RolesReturned(op) ==
    /\ roles # Pending /\ ~roles.raised
    /\ feature_prep.op = op /\ ~feature_prep.done

\* process_csv 185-212 and 238
PrepareAudit ==
    /\ RolesReturned("process_csv")
    /\ LET feature_names ==
               FeatureNames(schema, AuditColsToDrop(schema, roles.target, roles.protected))
       IN  feature_prep' =
             [feature_prep EXCEPT
                !.done = TRUE,
                !.identifiers = IdentifierColumns(schema, roles.target, roles.protected),
                !.feature_names = feature_names,
                !.protected_read = ReadProtected(feature_names, roles.protected)]
    /\ UNCHANGED <<detectVars, shap_call>>
    /\ UNCHANGED <<fairVars, shapVars, rankVars, handlerVars, flipVars, rbiVars>>

\* explain 409-439: X is never read by column name afterwards
PrepareExplain ==
    /\ RolesReturned("explain")
    /\ feature_prep' =
         [feature_prep EXCEPT
            !.done = TRUE,
            !.identifiers = IdentifierColumns(schema, roles.target, roles.protected),
            !.feature_names =
                FeatureNames(schema,
                    TargetAndIdentifiers(schema, roles.target, roles.protected))]
    /\ UNCHANGED <<detectVars, shap_call>>
    /\ UNCHANGED <<fairVars, shapVars, rankVars, handlerVars, flipVars, rbiVars>>

\* mitigate 603-616 and 626 (X_orig), 666 (X_balanced)
PrepareMitigate ==
    /\ RolesReturned("mitigate")
    /\ LET feature_names ==
               FeatureNames(schema,
                   TargetAndIdentifiers(schema, roles.target, roles.protected))
       IN  feature_prep' =
             [feature_prep EXCEPT
                !.done = TRUE,
                !.identifiers = IdentifierColumns(schema, roles.target, roles.protected),
                !.feature_names = feature_names,
                !.balanced_feature_names = FeatureNames(schema, {roles.target}),
                !.protected_read = ReadProtected(feature_names, roles.protected)]
    /\ UNCHANGED <<detectVars, shap_call>>
    /\ UNCHANGED <<fairVars, shapVars, rankVars, handlerVars, flipVars, rbiVars>>

\* counterfactual_check 950-951 and 971: no identifier loop
PrepareCounterfactual ==
    /\ RolesReturned("counterfactual_check")
    /\ LET feature_names == FeatureNames(schema, {roles.target})
       IN  feature_prep' =
             [feature_prep EXCEPT
                !.done = TRUE,
                !.feature_names = feature_names,
                !.protected_read = ReadProtected(feature_names, roles.protected)]
    /\ UNCHANGED <<detectVars, shap_call>>
    /\ UNCHANGED <<fairVars, shapVars, rankVars, handlerVars, flipVars, rbiVars>>

NextFeatures ==
    \/ DetectRoles \/ PrepareAudit \/ PrepareExplain \/ PrepareMitigate
    \/ PrepareCounterfactual

SpecFeatures == InitFeatures /\ [][NextFeatures]_vars

\* the identifier tokens of a lower-cased column name
C21_HasIdentifierToken(col_lower) ==
    \/ Contains(col_lower, "name")
    \/ Contains(col_lower, "email")
    \/ Contains(col_lower, "phone")
    \/ /\ Contains(col_lower, "id")
       /\ ~Contains(col_lower, "valid") /\ ~Contains(col_lower, "video")
       /\ ~Contains(col_lower, "acid") /\ ~Contains(col_lower, "fluid")

C22_PreparerFeatures ==
    SelectSeq(ColumnNames(schema),
              LAMBDA c : /\ c # roles.target
                         /\ c \notin Range(potential_targets)
                         /\ ~(/\ C21_HasIdentifierToken(Lower(c))
                              /\ c # roles.protected))

\* C22: every classifier of every handler is trained on the Feature
\* Preparer's feature set.
C22_OneFeatureSet ==
    feature_prep.done =>
        /\ feature_prep.feature_names = C22_PreparerFeatures
        /\ feature_prep.op = "mitigate"
              => feature_prep.balanced_feature_names = C22_PreparerFeatures

\* C26: in process_csv, with protected different from target, the protected
\* column is a column of X after all exclusions, so that X_test[protected]
\* can be read.
C26_ProtectedKept ==
    (feature_prep.done /\ feature_prep.op = "process_csv"
       /\ roles.protected # roles.target)
        => /\ roles.protected \in Range(feature_prep.feature_names)
           /\ feature_prep.protected_read = "ok"

(***************************************************************************)
(* Specification SpecSubsample: the frame handed to explainer.shap_values  *)
(* by process_csv (251-261) and by explain (447-450), a frame being held   *)
(* as its number of rows.                                                  *)
(***************************************************************************)
MaxTestRows == 102

\* line 255 and 257: the size above which, and to which, X_test is sampled
ShapSampleCap == 100

\* X_test of train_test_split has at least one row
InitSubsample ==
    /\ DetectIdle /\ FairIdle /\ ShapIdle /\ RankIdle /\ HandlerIdle /\ FlipIdle
    /\ RbiIdle
    /\ feature_prep = NoPrep
    /\ \E op \in {"process_csv", "explain"}, n \in 1..MaxTestRows :
          shap_call = [NoCall EXCEPT !.op = op, !.X_test = n]

\* process_csv 254-261: X_shap = X_test, or X_test.sample(100, random_state=42)
AuditExplainerCall ==
    /\ shap_call.op = "process_csv" /\ ~shap_call.called
    /\ shap_call' =
         IF shap_call.X_test > ShapSampleCap
         THEN [shap_call EXCEPT !.X_shap = ShapSampleCap, !.random_state = 42,
                                !.called = TRUE]
         ELSE [shap_call EXCEPT !.X_shap = shap_call.X_test, !.called = TRUE]
    /\ UNCHANGED feature_prep
    /\ UNCHANGED <<detectVars, fairVars, shapVars, rankVars, handlerVars, flipVars, rbiVars>>

\* explain 449-450: explainer.shap_values(X_test)
ExplainExplainerCall ==
    /\ shap_call.op = "explain" /\ ~shap_call.called
    /\ shap_call' = [shap_call EXCEPT !.X_shap = shap_call.X_test, !.called = TRUE]
    /\ UNCHANGED feature_prep
    /\ UNCHANGED <<detectVars, fairVars, shapVars, rankVars, handlerVars, flipVars, rbiVars>>

NextSubsample == AuditExplainerCall \/ ExplainExplainerCall

SpecSubsample == InitSubsample /\ [][NextSubsample]_vars

\* C24: in process_csv and in explain the explainer is called on at most
\* 100 rows: a test split of more than 100 rows is sampled down to exactly
\* 100 rows with a fixed seed, a smaller one is passed unchanged.
C24_AtMost100Rows ==
    shap_call.called =>
        /\ shap_call.X_shap <= 100
        /\ shap_call.X_test > 100
              => (shap_call.X_shap = 100 /\ shap_call.random_state = 42)
        /\ shap_call.X_test <= 100
              => (shap_call.X_shap = shap_call.X_test /\ shap_call.random_state = 0)

(***************************************************************************)
(* Specification SpecCounterfactual: counterfactual_check (908-1019) on    *)
(* uploads whose protected column is numeric ('Age', found by keyword or   *)
(* named in the form) or categorical ('Gender').                           *)
(***************************************************************************)
AgeLoan == <<"Age", "Loan_Approved">>
AgeLoanLines == << <<"30", "No">>, <<"40", "Yes">>, <<"40", "No">> >>

CounterfactualFiles ==
    UNION { FilesOfLen(AgeLoan, AgeLoanLines, n)
            \cup FilesOfLen(GenderAgeLoan, SubSeq(GenderAgeLoanLines, 1, 3), n)
            : n \in 1..MaxRows }

CounterfactualRequests ==
    { [op |-> "counterfactual_check", file |-> file, target_column |-> "",
       protected_attribute |-> p, row_index |-> r] :
         file \in CounterfactualFiles, p \in {"", "Age"}, r \in {0, 1} }

ReceiveCounterfactual ==
    /\ pc = "idle"
    /\ \E req \in CounterfactualRequests : request' = req
    /\ pc' = "read_csv"
    /\ UNCHANGED <<df, locals, roles, trained, exc, response, idleOthers>>

NextCounterfactual ==
    \/ ReceiveCounterfactual \/ ReadCsvStep \/ DropNaStep \/ DetectStep
    \/ SelectRowStep \/ EncodeStep \/ FitStep \/ FlipStep \/ RespondStep
    \/ ExceptStep \/ SendStep

SpecCounterfactual == Init /\ [][NextCounterfactual]_vars

\* the model was fitted on a frame whose protected column is numeric, differs
\* from the target and has two values or more
C29_NumericProtected ==
    /\ Answered("counterfactual_check") /\ trained = 1
    /\ roles.protected # roles.target
    /\ ~HasEncoder(locals.label_encoders, df, roles.protected)
    /\ Len(NpUnique(Column(df, roles.protected))) >= 2

\* C29: counterfactual_check returns a result for a numeric protected
\* column as well: the two groups are reported as the raw values and the
\* missing encoder is no failure.
C29_NumericProtectedAnswered ==
    C29_NumericProtected =>
        /\ response.status_code = 200
        /\ response.original_group
             = ToStr(Column(df, roles.protected)[locals.row_index + 1])
        /\ response.flipped_group
             = ToStr(FlippedValue(NpUnique(Column(df, roles.protected)),
                                  Column(df, roles.protected)[locals.row_index + 1]))

\* mitigate before its step 3: the two compared groups, the favourable
\* label, and the favourable rows of a group in a frame
C30_Groups == NpUnique(Column(df, roles.protected))
C30_Favorable == FavorableLabel(NpUnique(Column(df, roles.target)))
C30_Count(frame, group) ==
    Cardinality({ i \in 1..Len(frame.rows) :
                    /\ Column(frame, roles.protected)[i] = group
                    /\ Column(frame, roles.target)[i] = C30_Favorable })
C30_Difference ==
    Abs(C30_Count(df, C30_Groups[1]) - C30_Count(df, C30_Groups[2]))
C30_Minority ==
    IF C30_Count(df, C30_Groups[1]) < C30_Count(df, C30_Groups[2])
    THEN C30_Groups[1] ELSE C30_Groups[2]

\* C30: with two protected groups or more, the rebalanced dataset is the
\* original rows followed by exactly |cA - cB| copies of favourable rows of
\* the group with fewer of them; the two groups then have equal favourable
\* counts and samples_added = |cA - cB|, also when the smaller count is 0.
C30_Rebalanced ==
    [][(pc = "oversample" /\ Len(C30_Groups) >= 2) =>
         /\ pc' = "refit"
         /\ locals'.samples_added = C30_Difference
         /\ Len(locals'.df_balanced.rows) = Len(df.rows) + C30_Difference
         /\ SubSeq(locals'.df_balanced.rows, 1, Len(df.rows)) = df.rows
         /\ \A k \in (Len(df.rows) + 1)..Len(locals'.df_balanced.rows) :
               /\ Column(locals'.df_balanced, roles.protected)[k] = C30_Minority
               /\ Column(locals'.df_balanced, roles.target)[k] = C30_Favorable
         /\ C30_Count(locals'.df_balanced, C30_Groups[1])
              = C30_Count(locals'.df_balanced, C30_Groups[2])]_vars

=============================================================================
